---------------------------- MODULE Spec2Model ----------------------------
(***************************************************************************)
(* A model of the deterministic execution pipeline of the massa node:      *)
(*   - the disk ledger and its XOR hash accumulator                        *)
(*     (massa-ledger-worker/src/ledger_db.rs),                             *)
(*   - the execution context and the slot executor                         *)
(*     (massa-execution-worker/src/context.rs, execution.rs),              *)
(*   - the slot sequencer with its active history                          *)
(*     (massa-execution-worker/src/execution.rs, active_history.rs).       *)
(*                                                                         *)
(* Conventions.  Option<T> is a sequence of length at most one: None is    *)
(* <<>> and Some(v) is <<v>>.  A 32-byte hash is modelled by the set of    *)
(* the preimages XOR-ed into it: BLAKE3 is taken collision free and its    *)
(* outputs linearly independent, so that XOR is symmetric difference and   *)
(* the all-zero hash is the empty set.                                     *)
(***************************************************************************)
EXTENDS Integers, Sequences, FiniteSets, TLC

None == <<>>
Some(v) == <<v>>
IsSome(o) == o /= <<>>
Unwrap(o) == o[1]

\* ------------------------------------------------------------------ slots

\* number of threads (configuration thread_count)
THREAD_COUNT == 2

\* highest period the model executes
MaxPeriod == 2

Slot(p, t) == [period |-> p, thread |-> t]

\* Ord for Slot: lexicographic on (period, thread)
SlotLt(a, b) == a.period < b.period \/ (a.period = b.period /\ a.thread < b.thread)
SlotLe(a, b) == a = b \/ SlotLt(a, b)

get_next_slot(s) ==
    IF s.thread + 1 >= THREAD_COUNT THEN Slot(s.period + 1, 0)
    ELSE Slot(s.period, s.thread + 1)

get_prev_slot(s) ==
    IF s.thread > 0 THEN Slot(s.period, s.thread - 1)
    ELSE Slot(s.period - 1, THREAD_COUNT - 1)

\* number of slots from s to a (a >= s)
slots_since(a, s) == ((a.period - s.period) * THREAD_COUNT + a.thread) - s.thread

\* slot at which the final state and the disk ledger start
GenesisSlot == Slot(0, THREAD_COUNT - 1)

Slots == { Slot(p, t) : p \in 1..MaxPeriod, t \in 0..(THREAD_COUNT - 1) }


\* ============================================================ disk ledger
\* massa-ledger-worker/src/ledger_db.rs

\* addresses of the disk ledger, in the iteration order of BTreeMap<Address, _>
LAddrOrder == <<"A", "B", "S">>
LAddrs == { LAddrOrder[i] : i \in 1..Len(LAddrOrder) }

\* datastore keys, in the iteration order of BTreeMap<Vec<u8>, _>
DataKeyOrder == <<"k">>
DataKeys == { DataKeyOrder[i] : i \in 1..Len(DataKeyOrder) }

\* largest byte string / amount stored in a ledger value
MaxVal == 1
Vals == 0..MaxVal

\* key idents of the sub-entries
BALANCE_IDENT == 0
BYTECODE_IDENT == 1
DATASTORE_IDENT == 2

balance_key(addr) == <<addr, BALANCE_IDENT, "">>
bytecode_key(addr) == <<addr, BYTECODE_IDENT, "">>
data_key(addr, k) == <<addr, DATASTORE_IDENT, k>>

LKeys == { balance_key(a) : a \in LAddrs } \cup { bytecode_key(a) : a \in LAddrs }
            \cup { data_key(a, k) : a \in LAddrs, k \in DataKeys }

\* Hash::compute_from(len_varint(key) ++ key ++ value): the length prefix makes
\* the preimage determine (key, value)
KvHash(key, value) == <<"kv", key, value>>
\* Hash::compute_from(slot_bytes)
SlotHash(slot) == <<"slot", <<slot.period, slot.thread, "">>, 0>>

\* LEDGER_HASH_INITIAL_BYTES: the all-zero hash
LEDGER_HASH_INITIAL == {}

\* Hash ^= h
HashXor(acc, h) == IF h \in acc THEN acc \ {h} ELSE acc \cup {h}

\* LedgerBatch::new
LedgerBatchNew(ledger_hash) ==
    [ ledger_hash |-> ledger_hash,
      aeh_list |-> [k \in LKeys |-> None],
      write_batch |-> [k \in LKeys |-> None],
      slot_write |-> None ]

WPut(v) == <<"put", v>>
WDel == <<"del", 0>>

\* the LedgerDB of a freshly opened database
LedgerDBNew == [ db |-> [k \in LKeys |-> None], slot |-> None, hash |-> None ]

get_ledger_hash(ldb) == IF IsSome(ldb.hash) THEN Unwrap(ldb.hash) ELSE LEDGER_HASH_INITIAL

\* put_entry_value with the hash assigned to the accumulator instead of XOR-ed into it
put_entry_value_assign(ldb, batch, key, value) ==
    LET hash == KvHash(key, value) IN
    [ batch EXCEPT !.ledger_hash = {hash},
                   !.aeh_list[key] = Some(hash),
                   !.write_batch[key] = WPut(value) ]

put_entry_value(ldb, batch, key, value) ==
    LET hash == KvHash(key, value) IN
    [ batch EXCEPT !.ledger_hash = HashXor(@, hash),
                   !.aeh_list[key] = Some(hash),
                   !.write_batch[key] = WPut(value) ]

\* the hash after XOR-ing out what the batch or the database holds at key
XorOutPrevious(ldb, batch, key) ==
    IF IsSome(batch.aeh_list[key]) THEN HashXor(batch.ledger_hash, Unwrap(batch.aeh_list[key]))
    ELSE IF IsSome(ldb.db[key]) THEN HashXor(batch.ledger_hash, KvHash(key, Unwrap(ldb.db[key])))
    ELSE batch.ledger_hash

update_key_value(ldb, batch, key, value) ==
    LET hash == KvHash(key, value) IN
    [ batch EXCEPT !.ledger_hash = HashXor(XorOutPrevious(ldb, batch, key), hash),
                   !.aeh_list[key] = Some(hash),
                   !.write_batch[key] = WPut(value) ]

\* a variant of delete_key that leaves the ledger hash as it is
delete_key_keep_hash(ldb, batch, key) ==
    [ batch EXCEPT !.write_batch[key] = WDel ]

delete_key(ldb, batch, key) ==
    [ batch EXCEPT !.ledger_hash = XorOutPrevious(ldb, batch, key),
                   !.write_batch[key] = WDel ]

RECURSIVE PutDatastore(_, _, _, _, _)
PutDatastore(ldb, batch, addr, datastore, i) ==
    IF i > Len(DataKeyOrder) THEN batch
    ELSE LET k == DataKeyOrder[i]
             b == IF IsSome(datastore[k])
                  THEN put_entry_value(ldb, batch, data_key(addr, k), Unwrap(datastore[k]))
                  ELSE batch
         IN PutDatastore(ldb, b, addr, datastore, i + 1)

put_entry(ldb, batch, addr, ledger_entry) ==
    LET b1 == put_entry_value(ldb, batch, balance_key(addr), ledger_entry.balance)
        b2 == put_entry_value(ldb, b1, bytecode_key(addr), ledger_entry.bytecode)
    IN PutDatastore(ldb, b2, addr, ledger_entry.datastore, 1)

RECURSIVE UpdateDatastore(_, _, _, _, _)
UpdateDatastore(ldb, batch, addr, updates, i) ==
    IF i > Len(DataKeyOrder) THEN batch
    ELSE LET k == DataKeyOrder[i]
             u == updates[k]
             b == IF u = None THEN batch
                  ELSE IF u[1] = "Set" THEN update_key_value(ldb, batch, data_key(addr, k), u[2])
                  ELSE delete_key(ldb, batch, data_key(addr, k))
         IN UpdateDatastore(ldb, b, addr, updates, i + 1)

update_entry(ldb, batch, addr, entry_update) ==
    LET b1 == IF IsSome(entry_update.balance)
              THEN update_key_value(ldb, batch, balance_key(addr), Unwrap(entry_update.balance))
              ELSE batch
        b2 == IF IsSome(entry_update.bytecode)
              THEN update_key_value(ldb, b1, bytecode_key(addr), Unwrap(entry_update.bytecode))
              ELSE b1
    IN UpdateDatastore(ldb, b2, addr, entry_update.datastore, 1)

\* the datastore keys of addr that the database (not the batch) holds are deleted
RECURSIVE DeleteDatastore(_, _, _, _)
DeleteDatastore(ldb, batch, addr, i) ==
    IF i > Len(DataKeyOrder) THEN batch
    ELSE LET k == DataKeyOrder[i]
             b == IF IsSome(ldb.db[data_key(addr, k)])
                  THEN delete_key(ldb, batch, data_key(addr, k))
                  ELSE batch
         IN DeleteDatastore(ldb, b, addr, i + 1)

delete_entry(ldb, batch, addr) ==
    LET b1 == delete_key(ldb, batch, balance_key(addr))
        b2 == delete_key(ldb, b1, bytecode_key(addr))
    IN DeleteDatastore(ldb, b2, addr, 1)

set_slot(ldb, batch, slot) ==
    LET h1 == IF IsSome(ldb.slot) THEN HashXor(batch.ledger_hash, SlotHash(Unwrap(ldb.slot)))
              ELSE batch.ledger_hash
    IN [ batch EXCEPT !.slot_write = Some(slot),
                      !.ledger_hash = HashXor(h1, SlotHash(slot)) ]

\* db.write(batch) after the ledger hash was added to the batch
write_batch(ldb, batch) ==
    [ db |-> [k \in LKeys |->
                LET w == batch.write_batch[k] IN
                IF w = None THEN ldb.db[k]
                ELSE IF w[1] = "put" THEN Some(w[2]) ELSE None],
      slot |-> IF IsSome(batch.slot_write) THEN batch.slot_write ELSE ldb.slot,
      hash |-> Some(batch.ledger_hash) ]

LSet(e) == [kind |-> "Set", entry |-> e]
LUpdate(u) == [kind |-> "Update", update |-> u]
LDelete == [kind |-> "Delete"]

\* one change of the map, applied to the batch
ApplyOneChange(ldb, batch, addr, change) ==
    IF change.kind = "Set" THEN put_entry(ldb, batch, addr, change.entry)
    ELSE IF change.kind = "Update" THEN update_entry(ldb, batch, addr, change.update)
    ELSE delete_entry(ldb, batch, addr)

\* for (addr, change) in changes.0: changes maps every address to an Option
RECURSIVE ApplyChangeMap(_, _, _, _)
ApplyChangeMap(ldb, batch, changes, i) ==
    IF i > Len(LAddrOrder) THEN batch
    ELSE LET addr == LAddrOrder[i]
             b == IF IsSome(changes[addr])
                  THEN ApplyOneChange(ldb, batch, addr, Unwrap(changes[addr]))
                  ELSE batch
         IN ApplyChangeMap(ldb, b, changes, i + 1)

apply_changes(ldb, changes, slot) ==
    LET b0 == LedgerBatchNew(get_ledger_hash(ldb))
        b1 == ApplyChangeMap(ldb, b0, changes, 1)
        b2 == set_slot(ldb, b1, slot)
    IN write_batch(ldb, b2)

\* initial_ledger: a map given as a sequence of (address, entry) in the order
\* the HashMap iterates
RECURSIVE LoadEntries(_, _, _, _)
LoadEntries(ldb, batch, entries, i) ==
    IF i > Len(entries) THEN batch
    ELSE LoadEntries(ldb, put_entry(ldb, batch, entries[i][1], entries[i][2]), entries, i + 1)

load_initial_ledger(ldb, entries) ==
    LET b0 == LedgerBatchNew(LEDGER_HASH_INITIAL)
        b1 == LoadEntries(ldb, b0, entries, 1)
        b2 == set_slot(ldb, b1, GenesisSlot)
    IN write_batch(ldb, b2)


\* ------------------------------------------------ inputs of the disk ledger

\* the empty bytecode of a user address
EmptyBytecode == 0

\* LedgerEntry { balance, bytecode, datastore }
LedgerEntries ==
    [ balance : Vals, bytecode : {EmptyBytecode},
      datastore : [DataKeys -> {None} \cup { Some(v) : v \in Vals }] ]

\* LedgerEntryUpdate { balance: SetOrKeep, bytecode: SetOrKeep, datastore: map of SetOrDelete }
LedgerEntryUpdates ==
    [ balance : {None} \cup { Some(v) : v \in Vals },
      bytecode : {None, Some(EmptyBytecode)},
      datastore : [DataKeys -> {None, <<"Delete", 0>>} \cup { <<"Set", v>> : v \in Vals }] ]

LedgerChangeValues ==
    { LSet(e) : e \in LedgerEntries } \cup { LUpdate(u) : u \in LedgerEntryUpdates } \cup {LDelete}

\* the address whose changes are enumerated
ChangedAddr == LAddrOrder[1]

\* LedgerChanges: a map from addresses to a change
LedgerChangeMaps ==
    { [a \in LAddrs |-> IF a = ChangedAddr THEN c ELSE None] :
        c \in {None} \cup { Some(v) : v \in LedgerChangeValues } }

\* an initial ledger maps every address to an Option of its entry
InitialLedgers == [LAddrs -> {None} \cup { Some(e) : e \in LedgerEntries }]

\* the entries of an initial ledger in the order of LAddrOrder
RECURSIVE EntriesInOrder(_, _)
EntriesInOrder(initial, i) ==
    IF i > Len(LAddrOrder) THEN <<>>
    ELSE LET a == LAddrOrder[i] IN
         (IF IsSome(initial[a]) THEN << <<a, Unwrap(initial[a])>> >> ELSE <<>>)
            \o EntriesInOrder(initial, i + 1)

\* the hash of a ledger whose content and slot are known: the XOR of the
\* contributions of the pairs it holds and of its slot
ContentHash(ldb) ==
    { KvHash(k, Unwrap(ldb.db[k])) : k \in { x \in LKeys : IsSome(ldb.db[x]) } }
        \cup (IF IsSome(ldb.slot) THEN {SlotHash(Unwrap(ldb.slot))} ELSE {})

\* ===================================================== execution: the data
\* massa-execution-worker/src/{execution,context,active_history}.rs

\* Amount::MAX: the largest amount the checked arithmetic represents
MaxAmount == 30

\* HistorySearchResult
Present(v) == <<"Present", v>>
Absent == <<"Absent", 0>>
NoInfo == <<"NoInfo", 0>>

Max(S) == CHOOSE x \in S : \A y \in S : y <= x

\* thread(addr): the thread an address belongs to
AddrThread == [a \in LAddrs |-> IF a = "B" THEN 1 ELSE 0]
get_thread(addr) == AddrThread[addr] % THREAD_COUNT

\* operation ids of the model
OpIds == {"o1", "o2", "o3", "o4", "o5"}

\* AsyncMessage::compute_id: (rev(max_gas * gas_price), emission_slot, emission_index)
\* a variant without the Reverse of the fee
compute_id_ascending(m) ==
    <<IF m.gas_price * m.max_gas > MaxAmount THEN MaxAmount ELSE m.gas_price * m.max_gas,
      m.emission_slot.period, m.emission_slot.thread, m.emission_index>>

compute_id(m) ==
    LET fee == IF m.gas_price * m.max_gas > MaxAmount THEN MaxAmount ELSE m.gas_price * m.max_gas
    IN <<0 - fee, m.emission_slot.period, m.emission_slot.thread, m.emission_index>>

\* Ord for AsyncMessageId: lexicographic
IdLt(a, b) ==
    \E i \in 1..4 : a[i] < b[i] /\ \A j \in 1..(i - 1) : a[j] = b[j]

\* the messages of a pool in the order of their ids
RECURSIVE InIdOrder(_)
InIdOrder(pool) ==
    IF pool = {} THEN <<>>
    ELSE LET first == CHOOSE m \in pool :
                        \A n \in pool : n = m \/ IdLt(compute_id(m), compute_id(n))
         IN <<first>> \o InIdOrder(pool \ {first})

NoLedgerChanges == [a \in LAddrs |-> None]
NoExecutedOps == [o \in OpIds |-> None]
NoRollChanges == [a \in LAddrs |-> None]
\* production statistics: per address, the blocks produced and the blocks missed
NoProductionStats == [a \in LAddrs |-> <<0, 0>>]
\* PoSChanges::default()
NoPosChanges == [roll_changes |-> NoRollChanges, production_stats |-> NoProductionStats]

\* StateChanges::default()
NoStateChanges ==
    [ ledger_changes |-> NoLedgerChanges,
      async_pool_changes |-> <<>>,
      pos_changes |-> NoPosChanges,
      executed_ops_changes |-> NoExecutedOps ]

EmptyDatastore == [k \in DataKeys |-> None]
NoDatastoreUpdate == [k \in DataKeys |-> None]
\* LedgerEntryUpdate::default()
NoEntryUpdate == [balance |-> None, bytecode |-> None, datastore |-> NoDatastoreUpdate]

\* ------------------------------------------------------------ final state

\* FinalLedger reads of the disk ledger
final_get_balance(fs, addr) == fs.ledger.db[balance_key(addr)]
final_get_bytecode(fs, addr) == fs.ledger.db[bytecode_key(addr)]
final_get_data_entry(fs, addr, k) == fs.ledger.db[data_key(addr, k)]

\* AsyncPool::apply_changes: additions and deletions, in order
RECURSIVE ApplyPoolChanges(_, _, _)
ApplyPoolChanges(pool, changes, i) ==
    IF i > Len(changes) THEN pool
    ELSE LET ch == changes[i]
             p == IF ch[1] = "Add"
                  THEN { m \in pool : compute_id(m) /= compute_id(ch[2]) } \cup {ch[2]}
                  ELSE { m \in pool : compute_id(m) /= compute_id(ch[2]) }
         IN ApplyPoolChanges(p, changes, i + 1)

\* ExecutedOps::apply_changes: the executed operations are added, then those whose
\* expiry slot is before the finalized slot are purged
ApplyExecutedOps(executed_ops, changes, slot) ==
    [o \in OpIds |->
        LET e == IF IsSome(changes[o]) THEN changes[o] ELSE executed_ops[o] IN
        IF IsSome(e) /\ SlotLt(Unwrap(e), slot) THEN None ELSE e]

ApplyRollChanges(roll_counts, roll_changes) ==
    [a \in LAddrs |-> IF IsSome(roll_changes[a]) THEN Unwrap(roll_changes[a]) ELSE roll_counts[a]]

\* FinalStateConfig::final_history_length
FINAL_HISTORY_LENGTH == 10

\* the journal: (slot, changes) is appended, the oldest entries above the
\* history length are dropped
PushHistory(changes_history, slot, changes) ==
    LET h == Append(changes_history, <<slot, changes>>) IN
    IF Len(h) > FINAL_HISTORY_LENGTH THEN Tail(h) ELSE h

\* FinalState::finalize(slot, changes): ledger, async pool, roll state, executed ops
finalize(fs, slot, changes) ==
    [ slot |-> slot,
      changes_history |-> PushHistory(fs.changes_history, slot, changes),
      ledger |-> apply_changes(fs.ledger, changes.ledger_changes, slot),
      async_pool |-> ApplyPoolChanges(fs.async_pool, changes.async_pool_changes, 1),
      roll_counts |-> ApplyRollChanges(fs.roll_counts, changes.pos_changes.roll_changes),
      production_stats |-> [a \in LAddrs |->
            << fs.production_stats[a][1] + changes.pos_changes.production_stats[a][1],
               fs.production_stats[a][2] + changes.pos_changes.production_stats[a][2] >>],
      executed_ops |-> ApplyExecutedOps(fs.executed_ops, changes.executed_ops_changes, slot) ]

\* --------------------------------------------------------- active history

\* the index of the newest output of ah for which info(i) is not NoInfo
NewestInfo(ah, info(_)) ==
    LET idx == { i \in 1..Len(ah) : info(i) /= NoInfo } IN
    IF idx = {} THEN NoInfo ELSE info(Max(idx))

fetch_executed_op(ah, op_id) ==
    NewestInfo(ah, LAMBDA i :
        IF IsSome(ah[i].state_changes.executed_ops_changes[op_id]) THEN Present(0) ELSE NoInfo)

\* what one ledger change tells about the balance
BalanceInfo(change) ==
    IF change = None THEN NoInfo
    ELSE LET ch == Unwrap(change) IN
         IF ch.kind = "Set" THEN Present(ch.entry.balance)
         ELSE IF ch.kind = "Delete" THEN Absent
         ELSE IF IsSome(ch.update.balance) THEN Present(Unwrap(ch.update.balance))
         ELSE NoInfo

\* fetch_balance that returns the oldest information of the history
fetch_balance_oldest(ah, addr) ==
    LET idx == { i \in 1..Len(ah) :
                   BalanceInfo(ah[i].state_changes.ledger_changes[addr]) /= NoInfo } IN
    IF idx = {} THEN NoInfo
    ELSE BalanceInfo(ah[CHOOSE i \in idx : \A j \in idx : i <= j].state_changes.ledger_changes[addr])

fetch_balance(ah, addr) ==
    NewestInfo(ah, LAMBDA i : BalanceInfo(ah[i].state_changes.ledger_changes[addr]))

BytecodeInfo(change) ==
    IF change = None THEN NoInfo
    ELSE LET ch == Unwrap(change) IN
         IF ch.kind = "Set" THEN Present(ch.entry.bytecode)
         ELSE IF ch.kind = "Delete" THEN Absent
         ELSE IF IsSome(ch.update.bytecode) THEN Present(Unwrap(ch.update.bytecode))
         ELSE NoInfo

fetch_bytecode(ah, addr) ==
    NewestInfo(ah, LAMBDA i : BytecodeInfo(ah[i].state_changes.ledger_changes[addr]))

DataEntryInfo(change, k) ==
    IF change = None THEN NoInfo
    ELSE LET ch == Unwrap(change) IN
         IF ch.kind = "Set"
         THEN (IF IsSome(ch.entry.datastore[k]) THEN Present(Unwrap(ch.entry.datastore[k])) ELSE Absent)
         ELSE IF ch.kind = "Delete" THEN Absent
         ELSE LET u == ch.update.datastore[k] IN
              IF u = None THEN NoInfo
              ELSE IF u[1] = "Set" THEN Present(u[2]) ELSE Absent

fetch_active_history_data_entry(ah, addr, k) ==
    NewestInfo(ah, LAMBDA i : DataEntryInfo(ah[i].state_changes.ledger_changes[addr], k))

\* the roll change of the newest output that has one
fetch_roll_count(ah, addr) ==
    LET idx == { i \in 1..Len(ah) : IsSome(ah[i].state_changes.pos_changes.roll_changes[addr]) } IN
    IF idx = {} THEN None ELSE ah[Max(idx)].state_changes.pos_changes.roll_changes[addr]

\* SlotIndexPosition of slot in the history
get_slot_index(ah, slot) ==
    IF Len(ah) = 0 THEN <<"NoHistory", 0>>
    ELSE IF SlotLt(slot, ah[1].slot) THEN <<"Past", 0>>
    ELSE LET index == slots_since(slot, ah[1].slot) IN
         IF index >= Len(ah) THEN <<"Future", 0>> ELSE <<"Found", index>>

\* truncate_from that keeps the output of slot
truncate_from_after(ah, slot) ==
    LET pos == get_slot_index(ah, slot) IN
    IF pos[1] = "Past" THEN <<>>
    ELSE IF pos[1] = "Found" THEN SubSeq(ah, 1, pos[2] + 1)
    ELSE ah

\* truncate_from that clears the history when it finds the slot
truncate_from_clear(ah, slot) ==
    LET pos == get_slot_index(ah, slot) IN
    IF pos[1] = "Past" \/ pos[1] = "Found" THEN <<>> ELSE ah

\* remove slot and the slots after it from the history
truncate_from(ah, slot) ==
    LET pos == get_slot_index(ah, slot) IN
    IF pos[1] = "Past" THEN <<>>
    ELSE IF pos[1] = "Found" THEN SubSeq(ah, 1, pos[2])
    ELSE ah

\* ------------------------------------------------------ execution context

\* ExecutionStackElement
StackElement(address, coins, owned_addresses) ==
    [address |-> address, coins |-> coins, owned_addresses |-> owned_addresses]

\* Xoshiro256PlusPlus::from_seed: the state is the seed and the number of draws
RngFromSeed(seed) == [seed |-> seed, draws |-> 0]

\* ExecutionContext::new; final_state and active_history are the shared
\* references the speculative views read through
ExecutionContextNew(fs, ah) ==
    [ final_state |-> fs,
      active_history |-> ah,
      ledger_changes |-> NoLedgerChanges,
      async_emitted |-> <<>>,
      async_settled_changes |-> <<>>,
      pos_changes |-> NoPosChanges,
      executed_ops |-> NoExecutedOps,
      max_gas |-> 0,
      gas_price |-> 0,
      slot |-> Slot(0, 0),
      created_addr_index |-> 0,
      created_event_index |-> 0,
      created_message_index |-> 0,
      opt_block_id |-> None,
      stack |-> <<>>,
      read_only |-> FALSE,
      events |-> <<>>,
      unsafe_rng |-> RngFromSeed(<<>>),
      creator_address |-> None,
      origin_operation_id |-> None ]

\* seed = hash(slot ++ [1] ++ block id)
active_slot(slot, opt_block_id, fs, ah) ==
    [ ExecutionContextNew(fs, ah) EXCEPT
        !.slot = slot,
        !.opt_block_id = opt_block_id,
        !.unsafe_rng = RngFromSeed(<<slot.period, slot.thread, 1, opt_block_id>>) ]

get_snapshot(c) ==
    [ ledger_changes |-> c.ledger_changes,
      async_pool_changes |-> c.async_emitted,
      pos_changes |-> c.pos_changes,
      executed_ops |-> c.executed_ops,
      created_addr_index |-> c.created_addr_index,
      created_event_index |-> c.created_event_index,
      stack |-> c.stack,
      events |-> c.events,
      unsafe_rng |-> c.unsafe_rng ]

get_call_stack(c) == [i \in 1..Len(c.stack) |-> c.stack[i].address]

event_create(c, data) ==
    [ slot |-> c.slot,
      block |-> c.opt_block_id,
      call_stack |-> get_call_stack(c),
      read_only |-> c.read_only,
      index_in_slot |-> c.created_event_index,
      origin_operation_id |-> c.origin_operation_id,
      is_final |-> FALSE,
      data |-> data ]

\* a variant that keeps the index the event was created with
event_emit_keep_index(c, event) ==
    [ c EXCEPT !.events = Append(@, event), !.created_event_index = @ + 1 ]

event_emit(c, event) ==
    [ c EXCEPT !.events = Append(@, [event EXCEPT !.index_in_slot = c.created_event_index]),
               !.created_event_index = @ + 1 ]

reset_to_snapshot(c, snapshot, with_error) ==
    LET err_event == IF IsSome(with_error) THEN Some(event_create(c, Unwrap(with_error))) ELSE None
        c1 == [ c EXCEPT !.ledger_changes = snapshot.ledger_changes,
                         !.async_emitted = snapshot.async_pool_changes,
                         !.pos_changes = snapshot.pos_changes,
                         !.executed_ops = snapshot.executed_ops,
                         !.created_addr_index = snapshot.created_addr_index,
                         !.created_event_index = snapshot.created_event_index,
                         !.stack = snapshot.stack,
                         !.events = snapshot.events,
                         !.unsafe_rng = snapshot.unsafe_rng ]
    IN IF IsSome(err_event) THEN event_emit(c1, Unwrap(err_event)) ELSE c1

get_current_address(c) == IF Len(c.stack) > 0 THEN Some(c.stack[Len(c.stack)].address) ELSE None

\* the owned_addresses of the top frame of the call stack
OwnedAddresses(c) ==
    IF Len(c.stack) = 0 THEN {}
    ELSE { c.stack[Len(c.stack)].owned_addresses[i] :
             i \in 1..Len(c.stack[Len(c.stack)].owned_addresses) }

\* a variant that looks for the address in every frame of the call stack
has_write_rights_on_any_frame(c, addr) ==
    \E f \in 1..Len(c.stack) :
        \E i \in 1..Len(c.stack[f].owned_addresses) : c.stack[f].owned_addresses[i] = addr

has_write_rights_on(c, addr) ==
    /\ Len(c.stack) > 0
    /\ \E i \in 1..Len(c.stack[Len(c.stack)].owned_addresses) :
          c.stack[Len(c.stack)].owned_addresses[i] = addr

\* a read through the speculative view: local changes, then the active
\* history from its newest output, then the final state
ViewRead(local, history, final) ==
    IF local[1] = "Present" THEN Some(local[2])
    ELSE IF local[1] = "Absent" THEN None
    ELSE IF history[1] = "Present" THEN Some(history[2])
    ELSE IF history[1] = "Absent" THEN None
    ELSE final

get_balance(c, addr) ==
    ViewRead(BalanceInfo(c.ledger_changes[addr]), fetch_balance(c.active_history, addr),
             final_get_balance(c.final_state, addr))

get_bytecode(c, addr) ==
    ViewRead(BytecodeInfo(c.ledger_changes[addr]), fetch_bytecode(c.active_history, addr),
             final_get_bytecode(c.final_state, addr))

get_data_entry(c, addr, k) ==
    ViewRead(DataEntryInfo(c.ledger_changes[addr], k),
             fetch_active_history_data_entry(c.active_history, addr, k),
             final_get_data_entry(c.final_state, addr, k))

has_data_entry(c, addr, k) == IsSome(get_data_entry(c, addr, k))

entry_exists(c, addr) == IsSome(get_balance(c, addr))

\* LedgerChanges::set_balance
SetBalance(changes, addr, v) ==
    LET ch == changes[addr] IN
    [ changes EXCEPT ![addr] =
        IF ch = None THEN Some(LUpdate([NoEntryUpdate EXCEPT !.balance = Some(v)]))
        ELSE IF Unwrap(ch).kind = "Set" THEN Some(LSet([Unwrap(ch).entry EXCEPT !.balance = v]))
        ELSE IF Unwrap(ch).kind = "Update"
             THEN Some(LUpdate([Unwrap(ch).update EXCEPT !.balance = Some(v)]))
        ELSE Some(LSet([balance |-> v, bytecode |-> EmptyBytecode, datastore |-> EmptyDatastore])) ]

\* LedgerChanges::set_bytecode
SetBytecode(changes, addr, bc) ==
    LET ch == changes[addr] IN
    [ changes EXCEPT ![addr] =
        IF ch = None THEN Some(LUpdate([NoEntryUpdate EXCEPT !.bytecode = Some(bc)]))
        ELSE IF Unwrap(ch).kind = "Set" THEN Some(LSet([Unwrap(ch).entry EXCEPT !.bytecode = bc]))
        ELSE IF Unwrap(ch).kind = "Update"
             THEN Some(LUpdate([Unwrap(ch).update EXCEPT !.bytecode = Some(bc)]))
        ELSE Some(LSet([balance |-> 0, bytecode |-> bc, datastore |-> EmptyDatastore])) ]

\* LedgerChanges::set_data_entry (v = None deletes the entry)
SetDataEntry(changes, addr, k, v) ==
    LET ch == changes[addr] IN
    [ changes EXCEPT ![addr] =
        IF ch = None
        THEN Some(LUpdate([NoEntryUpdate EXCEPT
                !.datastore[k] = IF IsSome(v) THEN <<"Set", Unwrap(v)>> ELSE <<"Delete", 0>>]))
        ELSE IF Unwrap(ch).kind = "Set" THEN Some(LSet([Unwrap(ch).entry EXCEPT !.datastore[k] = v]))
        ELSE IF Unwrap(ch).kind = "Update"
             THEN Some(LUpdate([Unwrap(ch).update EXCEPT
                !.datastore[k] = IF IsSome(v) THEN <<"Set", Unwrap(v)>> ELSE <<"Delete", 0>>]))
        ELSE Some(LSet([balance |-> 0, bytecode |-> EmptyBytecode,
                        datastore |-> [EmptyDatastore EXCEPT ![k] = v]])) ]

Ok(c) == [ok |-> TRUE, c |-> c]
Err(c) == [ok |-> FALSE, c |-> c]

\* the debit of a transfer, given the balance of the debited address
DebitBalance(c, addr, balance, amount) ==
    IF balance = None \/ Unwrap(balance) < amount THEN Err(c)
    ELSE Ok([c EXCEPT !.ledger_changes = SetBalance(@, addr, Unwrap(balance) - amount)])

\* the credit of a transfer, given the balance of the credited address: a
\* missing address is created, a balance that would overflow is an error
CreditBalance(c, addr, balance, amount) ==
    IF balance = None
    THEN Ok([c EXCEPT !.ledger_changes[addr] =
                Some(LSet([balance |-> amount, bytecode |-> EmptyBytecode,
                           datastore |-> EmptyDatastore]))])
    ELSE IF Unwrap(balance) + amount > MaxAmount THEN Err(c)
    ELSE Ok([c EXCEPT !.ledger_changes = SetBalance(@, addr, Unwrap(balance) + amount)])

\* r, or the context c as it was when r is an error
OrUnchanged(c, r) == IF r.ok THEN r ELSE Err(c)

\* the credit that follows the debit
CreditAfter(c, debit, to_addr, amount) ==
    IF ~debit.ok THEN Err(c)
    ELSE IF to_addr = None THEN debit
    ELSE OrUnchanged(c, CreditBalance(debit.c, Unwrap(to_addr),
                                      get_balance(debit.c, Unwrap(to_addr)), amount))

\* SpeculativeLedger::transfer_coins: the debit then the credit; no change is
\* retained in case of failure
LedgerTransfer(c, from_addr, to_addr, amount) ==
    CreditAfter(c,
                IF from_addr = None THEN Ok(c)
                ELSE DebitBalance(c, Unwrap(from_addr), get_balance(c, Unwrap(from_addr)), amount),
                to_addr, amount)

transfer_coins(c, from_addr, to_addr, amount, check_rights) ==
    IF check_rights /\ IsSome(from_addr) /\ ~has_write_rights_on(c, Unwrap(from_addr))
    THEN Err(c)
    ELSE LedgerTransfer(c, from_addr, to_addr, amount)

set_data_entry(c, addr, k, data) ==
    IF ~has_write_rights_on(c, addr) THEN Err(c)
    ELSE IF ~entry_exists(c, addr) THEN Err(c)
    ELSE Ok([c EXCEPT !.ledger_changes = SetDataEntry(@, addr, k, Some(data))])

\* the datastore values stand for byte strings of that length: extend adds
\* the lengths
append_data_entry(c, addr, k, data) ==
    IF ~has_write_rights_on(c, addr) THEN Err(c)
    ELSE IF ~IsSome(get_data_entry(c, addr, k)) THEN Err(c)
    ELSE IF ~entry_exists(c, addr) THEN Err(c)
    ELSE Ok([c EXCEPT !.ledger_changes =
                SetDataEntry(@, addr, k, Some(Unwrap(get_data_entry(c, addr, k)) + data))])

delete_data_entry(c, addr, k) ==
    IF ~has_write_rights_on(c, addr) THEN Err(c)
    ELSE IF ~has_data_entry(c, addr, k) THEN Err(c)
    ELSE Ok([c EXCEPT !.ledger_changes = SetDataEntry(@, addr, k, None)])

\* a variant without the check of the creator address
set_bytecode_any_owned(c, addr, bytecode) ==
    IF ~has_write_rights_on(c, addr) THEN Err(c)
    ELSE IF ~entry_exists(c, addr) THEN Err(c)
    ELSE Ok([c EXCEPT !.ledger_changes = SetBytecode(@, addr, bytecode)])

set_bytecode(c, addr, bytecode) ==
    IF ~has_write_rights_on(c, addr) THEN Err(c)
    ELSE IF c.creator_address = Some(addr) THEN Err(c)
    ELSE IF ~entry_exists(c, addr) THEN Err(c)
    ELSE Ok([c EXCEPT !.ledger_changes = SetBytecode(@, addr, bytecode)])

\* ------------------------------------- speculative pool, rolls, operations

\* the pool as the context sees it: the final pool, the changes of the
\* active history, the changes settled so far in the context
RECURSIVE HistoryPool(_, _, _)
HistoryPool(pool, ah, i) ==
    IF i > Len(ah) THEN pool
    ELSE HistoryPool(ApplyPoolChanges(pool, ah[i].state_changes.async_pool_changes, 1), ah, i + 1)

CurrentPool(c) ==
    ApplyPoolChanges(HistoryPool(c.final_state.async_pool, c.active_history, 1),
                     c.async_settled_changes, 1)

\* the messages of msgs, in order, that can execute at slot within the gas left
RECURSIVE SelectBatch(_, _, _, _)
SelectBatch(msgs, i, slot, available_gas) ==
    IF i > Len(msgs) THEN <<>>
    ELSE LET m == msgs[i] IN
         IF /\ available_gas >= m.max_gas
            /\ SlotLe(m.validity_start, slot) /\ SlotLt(slot, m.validity_end)
            /\ get_thread(m.destination) = slot.thread
         THEN <<m>> \o SelectBatch(msgs, i + 1, slot, available_gas - m.max_gas)
         ELSE SelectBatch(msgs, i + 1, slot, available_gas)

DeleteChanges(msgs) == [i \in 1..Len(msgs) |-> <<"Delete", msgs[i]>>]
AddChanges(msgs) == [i \in 1..Len(msgs) |-> <<"Add", msgs[i]>>]

\* the batch and the context that has it deleted from the pool
TakeBatch(c, batch) ==
    [ batch |-> batch,
      c |-> [c EXCEPT !.async_settled_changes = @ \o DeleteChanges(batch)] ]

\* SpeculativeAsyncPool::take_batch_to_execute: the batch and the context
take_batch_to_execute(c, slot, max_gas) ==
    TakeBatch(c, SelectBatch(InIdOrder(CurrentPool(c)), 1, slot, max_gas))

\* the messages of a batch, each with the bytecode of its destination
WithBytecode(r) ==
    [ messages |-> [i \in 1..Len(r.batch) |->
                        <<get_bytecode(r.c, r.batch[i].destination), r.batch[i]>>],
      c |-> r.c ]

\* take_async_batch: each message with the bytecode of its destination
take_async_batch(c, max_gas) == WithBytecode(take_batch_to_execute(c, c.slot, max_gas))

\* AsyncPoolConfig::max_length, scaled to the messages of the model
ASYNC_POOL_MAX_LENGTH == 2

\* the messages of msgs, in order, that leave the pool at slot: the expired
\* ones and those in excess of the capacity
RECURSIVE SettleDeleted(_, _, _, _)
SettleDeleted(msgs, slot, i, kept) ==
    IF i > Len(msgs) THEN <<>>
    ELSE IF SlotLe(msgs[i].validity_end, slot)
    THEN <<msgs[i]>> \o SettleDeleted(msgs, slot, i + 1, kept)
    ELSE IF kept >= ASYNC_POOL_MAX_LENGTH
    THEN <<msgs[i]>> \o SettleDeleted(msgs, slot, i + 1, kept)
    ELSE SettleDeleted(msgs, slot, i + 1, kept + 1)

\* the deleted messages and the context that has them deleted
SettleDelete(c, deleted) ==
    [ deleted |-> deleted,
      c |-> [c EXCEPT !.async_settled_changes = @ \o DeleteChanges(deleted)] ]

\* the context that has the emitted messages added to the pool
SettleEmitted(c) ==
    [c EXCEPT !.async_settled_changes = @ \o AddChanges(c.async_emitted), !.async_emitted = <<>>]

\* SpeculativeAsyncPool::settle_slot: the emitted messages enter the pool, the
\* expired and the excess messages leave it and are returned
pool_settle_slot(c, slot) ==
    SettleDelete(SettleEmitted(c),
                 SettleDeleted(InIdOrder(CurrentPool(SettleEmitted(c))), slot, 1, 0))

push_new_message(c, msg) == [c EXCEPT !.async_emitted = Append(@, msg)]

\* reimburses msg.coins to the sender; a failed reimbursement is only logged
cancel_async_message(c, msg) == transfer_coins(c, None, Some(msg.sender), msg.coins, FALSE).c

\* SpeculativeRollState::get_rolls
get_rolls(c, addr) ==
    IF IsSome(c.pos_changes.roll_changes[addr]) THEN Unwrap(c.pos_changes.roll_changes[addr])
    ELSE LET h == fetch_roll_count(c.active_history, addr) IN
         IF IsSome(h) THEN Unwrap(h) ELSE c.final_state.roll_counts[addr]

add_rolls(c, buyer_addr, roll_count) ==
    [c EXCEPT !.pos_changes.roll_changes[buyer_addr] = Some(get_rolls(c, buyer_addr) + roll_count)]

\* SpeculativeRollState::update_production_stats
update_production_stats(c, creator, slot, block_id) ==
    [c EXCEPT !.pos_changes.production_stats[creator] =
        IF IsSome(block_id) THEN <<@[1] + 1, @[2]>> ELSE <<@[1], @[2] + 1>>]

\* is_op_executed that does not look into the active history
is_op_executed_no_history(c, op_id) ==
    \/ IsSome(c.executed_ops[op_id])
    \/ IsSome(c.final_state.executed_ops[op_id])

is_op_executed(c, op_id) ==
    \/ IsSome(c.executed_ops[op_id])
    \/ fetch_executed_op(c.active_history, op_id)[1] = "Present"
    \/ IsSome(c.final_state.executed_ops[op_id])

insert_executed_op(c, op_id, op_valid_until_slot) ==
    [c EXCEPT !.executed_ops[op_id] = Some(op_valid_until_slot)]

\* the addresses hash(slot ++ created_addr_index ++ read_only flag) yields, by index
ScAddrOrder == <<"S">>

\* the entry of address is created and address is owned by the current frame
CreateScAddress(c, address, bytecode) ==
    Ok([c EXCEPT
          !.ledger_changes[address] =
               Some(LSet([balance |-> 0, bytecode |-> bytecode, datastore |-> EmptyDatastore])),
          !.stack[Len(c.stack)].owned_addresses = Append(@, address),
          !.created_addr_index = @ + 1])

create_new_sc_address(c, bytecode) ==
    IF Len(c.stack) = 0 \/ c.created_addr_index >= Len(ScAddrOrder) THEN Err(c)
    ELSE CreateScAddress(c, ScAddrOrder[c.created_addr_index + 1], bytecode)

\* the reimbursement of every deleted message, in order
RECURSIVE CancelAll(_, _, _)
CancelAll(c, msgs, i) ==
    IF i > Len(msgs) THEN c ELSE CancelAll(cancel_async_message(c, msgs[i]), msgs, i + 1)

\* the output of the slot taken from the context, and the context it leaves
TakeOutput(c) ==
    [ out |-> [ slot |-> c.slot,
                block_id |-> c.opt_block_id,
                state_changes |->
                   [ ledger_changes |-> c.ledger_changes,
                     async_pool_changes |-> c.async_settled_changes,
                     pos_changes |-> c.pos_changes,
                     executed_ops_changes |-> c.executed_ops ],
                events |-> c.events ],
      c |-> [c EXCEPT !.ledger_changes = NoLedgerChanges,
                      !.async_settled_changes = <<>>,
                      !.pos_changes = NoPosChanges,
                      !.executed_ops = NoExecutedOps,
                      !.opt_block_id = None,
                      !.events = <<>>] ]

\* the deleted messages are cancelled
CancelDeleted(p) == CancelAll(p.c, p.deleted, 1)

\* settle_slot: the output of the slot and the context it leaves (no roll is
\* sold in the model: there is no deferred credit to pay, and no cycle ends)
settle_slot(c) == TakeOutput(CancelDeleted(pool_settle_slot(c, c.slot)))
\* ------------------------------------------------- operations and messages

\* ExecutionConfig: the fields the execution reads, with values scaled to the
\* amounts and the slots of the model
OPERATION_VALIDITY_PERIODS == 2
MAX_GAS_PER_BLOCK == 2
MAX_ASYNC_GAS == 2
BLOCK_REWARD == 6
ENDORSEMENT_COUNT == 1
ROLL_PRICE == 2

\* get_validity_range that includes the expiry period
InValidityRange_inclusive(operation, period) ==
    LET start == IF operation.expire_period >= OPERATION_VALIDITY_PERIODS
                 THEN operation.expire_period - OPERATION_VALIDITY_PERIODS ELSE 0
    IN start <= period /\ period <= operation.expire_period

\* WrappedOperation::get_validity_range: the periods a block may include the operation in
InValidityRange(operation, period) ==
    LET start == IF operation.expire_period >= OPERATION_VALIDITY_PERIODS
                 THEN operation.expire_period - OPERATION_VALIDITY_PERIODS ELSE 0
    IN start <= period /\ period < operation.expire_period

IsVmOp(operation) == operation.op.type \in {"ExecuteSC", "CallSC"}
get_gas_usage(operation) == IF IsVmOp(operation) THEN operation.op.max_gas ELSE 0
get_gas_price(operation) == IF IsVmOp(operation) THEN operation.op.gas_price ELSE 0
\* op.max_gas * op.gas_price + op.fee, saturating
get_total_fee(operation) ==
    LET v == get_gas_usage(operation) * get_gas_price(operation) + operation.fee
    IN IF v > MaxAmount THEN MaxAmount ELSE v

\* the payload of the error event of an operation or of a message
ErrorData(text, origin) == <<"massa_execution_error", text, origin>>

\* execute_operation from the fee debit to the call of the body: the
\* executed-operation insertion, the snapshot, the per-operation fields
AcceptOperation(c, operation, remaining_block_gas, block_credits) ==
    [ result |-> "Accepted",
      c |-> [c EXCEPT !.gas_price = get_gas_price(operation),
                      !.max_gas = get_gas_usage(operation),
                      !.creator_address = Some(operation.creator_address),
                      !.origin_operation_id = Some(operation.id)],
      snapshot |-> Some(get_snapshot(c)),
      remaining_block_gas |-> remaining_block_gas - get_gas_usage(operation),
      block_credits |-> IF block_credits + get_total_fee(operation) > MaxAmount THEN MaxAmount
                        ELSE block_credits + get_total_fee(operation) ]

\* the operation is not executed: the context, the gas and the credits stay
RejectOperation(c, why, remaining_block_gas, block_credits) ==
    [ result |-> why, c |-> c, snapshot |-> None,
      remaining_block_gas |-> remaining_block_gas,
      block_credits |-> block_credits ]

\* the outcome of the fee debit
AfterFeeDebit(c, debit, operation, remaining_block_gas, block_credits) ==
    IF ~debit.ok
    THEN RejectOperation(c, "IncludeOperationError", remaining_block_gas, block_credits)
    ELSE AcceptOperation(
            insert_executed_op(debit.c, operation.id,
                               Slot(operation.expire_period,
                                    get_thread(operation.creator_address))),
            operation, remaining_block_gas, block_credits)

\* a variant of execute_operation that updates the block gas before the
\* thread check
ExecuteOperationBeginGasFirst(c, operation, block_slot, remaining_block_gas, block_credits) ==
    IF ~InValidityRange(operation, block_slot.period)
    THEN RejectOperation(c, "InvalidSlotRange", remaining_block_gas, block_credits)
    ELSE IF remaining_block_gas < get_gas_usage(operation)
    THEN RejectOperation(c, "NotEnoughGas", remaining_block_gas, block_credits)
    ELSE IF get_thread(operation.creator_address) /= block_slot.thread
    THEN RejectOperation(c, "IncludeOperationError",
                         remaining_block_gas - get_gas_usage(operation), block_credits)
    ELSE IF is_op_executed(c, operation.id)
    THEN RejectOperation(c, "IncludeOperationError", remaining_block_gas, block_credits)
    ELSE AfterFeeDebit(c, transfer_coins(c, Some(operation.creator_address), None,
                                         get_total_fee(operation), FALSE),
                       operation, remaining_block_gas, block_credits)

\* execute_operation up to the call of the body: the checks, the fee debit,
\* the executed-operation insertion, the snapshot, the per-operation fields
ExecuteOperationBegin(c, operation, block_slot, remaining_block_gas, block_credits) ==
    IF ~InValidityRange(operation, block_slot.period)
    THEN RejectOperation(c, "InvalidSlotRange", remaining_block_gas, block_credits)
    ELSE IF remaining_block_gas < get_gas_usage(operation)
    THEN RejectOperation(c, "NotEnoughGas", remaining_block_gas, block_credits)
    ELSE IF get_thread(operation.creator_address) /= block_slot.thread
    THEN RejectOperation(c, "IncludeOperationError", remaining_block_gas, block_credits)
    ELSE IF is_op_executed(c, operation.id)
    THEN RejectOperation(c, "IncludeOperationError", remaining_block_gas, block_credits)
    ELSE AfterFeeDebit(c, transfer_coins(c, Some(operation.creator_address), None,
                                         get_total_fee(operation), FALSE),
                       operation, remaining_block_gas, block_credits)

\* execute_operation after the body returned: an error resets the context to
\* the snapshot and emits the error event
ExecuteOperationEnd(c, snapshot, operation, body_ok) ==
    IF body_ok THEN c
    ELSE reset_to_snapshot(c, snapshot, Some(ErrorData("runtime error when executing operation", operation.id)))

\* the rolls are added once the coins are spent
RollsBought(c, r, operation, buyer_addr) ==
    IF ~r.ok THEN Err(c) ELSE Ok(add_rolls(r.c, buyer_addr, operation.op.roll_count))

\* the body of execute_roll_buy_op once the stack is set
RollBuyBody(c, operation, buyer_addr) ==
    IF ROLL_PRICE * operation.op.roll_count > MaxAmount THEN Err(c)
    ELSE RollsBought(c, transfer_coins(c, Some(buyer_addr), None,
                                       ROLL_PRICE * operation.op.roll_count, FALSE),
                     operation, buyer_addr)

execute_roll_buy_op(c, operation, buyer_addr) ==
    RollBuyBody([c EXCEPT !.stack = <<StackElement(buyer_addr, 0, <<buyer_addr>>)>>],
                operation, buyer_addr)

\* the body of execute_transaction_op once the stack is set
TransactionBody(c, operation, sender_addr) ==
    OrUnchanged(c, transfer_coins(c, Some(sender_addr), Some(operation.op.recipient_address),
                                  operation.op.amount, FALSE))

execute_transaction_op(c, operation, sender_addr) ==
    TransactionBody([c EXCEPT !.stack =
                        <<StackElement(sender_addr, operation.op.amount, <<sender_addr>>)>>],
                    operation, sender_addr)

\* execute_executesc_op up to the run of the bytecode
ExecuteScBegin(c, operation, sender_addr) ==
    Ok([c EXCEPT !.stack = <<StackElement(sender_addr, 0, <<sender_addr>>)>>])

\* the credit of the target once the sender is debited
CallScCredit(c, debit, target_addr, coins) ==
    IF ~debit.ok THEN Err(c)
    ELSE OrUnchanged(debit.c, transfer_coins(debit.c, None, Some(target_addr), coins, FALSE))

\* the body of execute_callsc_op once the stack is set
CallScTransfer(c, sender_addr, target_addr, coins) ==
    CallScCredit(c, transfer_coins(c, Some(sender_addr), None, coins, FALSE), target_addr, coins)

\* execute_callsc_op up to the run of the target function
CallScBegin(c, operation, sender_addr) ==
    CallScTransfer([c EXCEPT !.stack =
                       << StackElement(sender_addr, 0, <<sender_addr>>),
                          StackElement(operation.op.target_addr, 0,
                                       <<operation.op.target_addr>>) >>],
                   sender_addr, operation.op.target_addr, operation.op.coins)

\* the message failed before its handler ran: the context is reset to the
\* snapshot with the error, the message is cancelled
MessageFailed(c, context_snapshot, message, text) ==
    [ result |-> "Err",
      c |-> cancel_async_message(
              reset_to_snapshot(c, context_snapshot, Some(ErrorData(text, ""))), message),
      snapshot |-> None ]

\* the outcome of the credit of the destination
MessageCredited(c, context_snapshot, message, credit) ==
    IF ~credit.ok
    THEN MessageFailed(c, context_snapshot, message,
                       "could not credit coins to target of async execution")
    ELSE [ result |-> "Run", c |-> credit.c, snapshot |-> Some(context_snapshot) ]

\* execute_async_message once the per-message fields and the stack are set
MessageChecks(c, context_snapshot, message, bytecode) ==
    IF bytecode = None
    THEN MessageFailed(c, context_snapshot, message, "no target bytecode found")
    ELSE IF ~message.data_utf8
    THEN MessageFailed(c, context_snapshot, message, "message data does not convert to utf-8")
    ELSE MessageCredited(c, context_snapshot, message,
            transfer_coins(c, None, Some(message.destination), message.coins, FALSE))

\* execute_async_message up to the run of the handler: the snapshot, the
\* per-message fields and stack, the bytecode and data checks, the credit of
\* the destination.  result "Run" leaves the handler to run.
ExecuteAsyncMessageBegin(c, message, bytecode) ==
    MessageChecks([c EXCEPT !.max_gas = message.max_gas,
                            !.gas_price = message.gas_price,
                            !.creator_address = None,
                            !.stack = << StackElement(message.sender, message.coins,
                                                      <<message.sender>>),
                                         StackElement(message.destination, message.coins,
                                                      <<message.destination>>) >>],
                  get_snapshot(c), message, bytecode)

\* execute_async_message after the handler returned
ExecuteAsyncMessageEnd(c, snapshot, message, run_ok) ==
    IF run_ok THEN c
    ELSE cancel_async_message(
            reset_to_snapshot(c, snapshot,
                              Some(ErrorData("async message runtime execution error", ""))),
            message)

\* --------------------------------------------------------- slot execution

\* massa_sc_runtime run as one step: the empty bytecode has nothing to run,
\* any other bytecode returns without calling the interface
RunVm(c, bytecode) == IF bytecode = EmptyBytecode THEN Err(c) ELSE Ok(c)

\* the handler of the message runs, when the checks let it
MessageRun(b, message, bytecode) ==
    IF b.result = "Err" THEN b.c
    ELSE ExecuteAsyncMessageEnd(b.c, Unwrap(b.snapshot), message,
                                RunVm(b.c, Unwrap(bytecode)).ok)

execute_async_message(c, message, bytecode) ==
    MessageRun(ExecuteAsyncMessageBegin(c, message, bytecode), message, bytecode)

\* the target function of a CallSC operation runs, unless its name is empty
CallScRun(b, operation) ==
    IF ~b.ok THEN b
    ELSE IF operation.op.target_func_empty THEN b
    ELSE RunVm(b.c, IF IsSome(get_bytecode(b.c, operation.op.target_addr))
                    THEN Unwrap(get_bytecode(b.c, operation.op.target_addr))
                    ELSE EmptyBytecode)

\* the body of an operation, by its type
OperationBody(c, operation) ==
    IF operation.op.type = "Transaction"
    THEN execute_transaction_op(c, operation, operation.creator_address)
    ELSE IF operation.op.type = "RollBuy"
    THEN execute_roll_buy_op(c, operation, operation.creator_address)
    ELSE IF operation.op.type = "ExecuteSC"
    THEN RunVm(ExecuteScBegin(c, operation, operation.creator_address).c, operation.op.data)
    ELSE CallScRun(CallScBegin(c, operation, operation.creator_address), operation)

\* the end of the operation, given what its body returned
OperationEnd(b, body, operation) ==
    [b EXCEPT !.c = ExecuteOperationEnd(body.c, Unwrap(b.snapshot), operation, body.ok)]

\* the body of the operation runs, when the operation is accepted
OperationRun(b, operation) ==
    IF b.result /= "Accepted" THEN b
    ELSE OperationEnd(b, OperationBody(b.c, operation), operation)

execute_operation(c, operation, block_slot, remaining_block_gas, block_credits) ==
    OperationRun(ExecuteOperationBegin(c, operation, block_slot, remaining_block_gas,
                                       block_credits),
                 operation)

\* for (opt_bytecode, message) in messages
RECURSIVE RunMessages(_, _, _)
RunMessages(c, messages, i) ==
    IF i > Len(messages) THEN c
    ELSE RunMessages(execute_async_message(c, messages[i][2], messages[i][1]), messages, i + 1)

\* for operation in operations: the context, the gas left and the credits
RECURSIVE RunOperations(_, _, _, _)
RunOperations(r, operations, i, block_slot) ==
    IF i > Len(operations) THEN r
    ELSE RunOperations(execute_operation(r.c, operations[i], block_slot,
                                         r.remaining_block_gas, r.block_credits),
                       operations, i + 1, block_slot)

\* what is left of the credits once a part of them is paid, when it is paid
CreditPaid(e, r, block_credit_part) ==
    [ c |-> r.c,
      remaining_credit |->
         IF ~r.ok THEN e.remaining_credit
         ELSE IF e.remaining_credit >= block_credit_part
         THEN e.remaining_credit - block_credit_part ELSE 0 ]

\* a part of the credits is paid to addr
CreditPart(e, addr, block_credit_part) ==
    CreditPaid(e, transfer_coins(e.c, None, Some(addr), block_credit_part, FALSE),
               block_credit_part)

\* the credit of the endorsement creators and of the endorsed block creators
RECURSIVE CreditEndorsements(_, _, _, _)
CreditEndorsements(e, endorsements, i, block_credit_part) ==
    IF i > Len(endorsements) THEN e
    ELSE CreditEndorsements(
            CreditPart(CreditPart(e, endorsements[i].creator_address, block_credit_part),
                       endorsements[i].endorsed_creator, block_credit_part),
            endorsements, i + 1, block_credit_part)

\* the block creator is credited with what is left of the credits
CreditBlockCreator(e, block) ==
    transfer_coins(e.c, None, Some(block.creator_address), e.remaining_credit, FALSE).c

\* execute_slot after the operations of the block: the production statistics
\* and the rewards
BlockRewards(c, slot, block, block_credits) ==
    CreditBlockCreator(
        CreditEndorsements(
            [ c |-> update_production_stats(c, block.creator_address, slot, Some(block.id)),
              remaining_credit |-> block_credits ],
            block.endorsements, 1, block_credits \div (3 * (1 + ENDORSEMENT_COUNT))),
        block)

\* the rewards once the operations are executed
RewardsAfter(ops, slot, block) == BlockRewards(ops.c, slot, block, ops.block_credits)

\* execute_slot from the block phase on
ExecuteBlock(c, slot, block) ==
    RewardsAfter(RunOperations([ result |-> "None", c |-> c, snapshot |-> None,
                                 remaining_block_gas |-> MAX_GAS_PER_BLOCK,
                                 block_credits |-> BLOCK_REWARD ],
                               block.operations, 1, block.slot),
                 slot, block)

\* selector.get_producer(slot)
Producer == [t \in 0..(THREAD_COUNT - 1) |-> IF t = 0 THEN "A" ELSE "B"]
get_producer(slot) == Producer[slot.thread]

\* execute_slot once the batch of messages is taken
SlotBody(b, slot, exec_target) ==
    IF IsSome(exec_target)
    THEN ExecuteBlock(RunMessages(b.c, b.messages, 1), slot, Unwrap(exec_target))
    ELSE update_production_stats(RunMessages(b.c, b.messages, 1), get_producer(slot), slot, None)

\* execute_slot: the output of the slot executed on top of the final state
\* and the active history; exec_target is None or Some(block)
execute_slot(fs, ah, slot, exec_target) ==
    settle_slot(
        SlotBody(take_async_batch(
                    active_slot(slot,
                                IF IsSome(exec_target) THEN Some(Unwrap(exec_target).id) ELSE None,
                                fs, ah),
                    MAX_ASYNC_GAS),
                 slot, exec_target)).out
\* ----------------------------------------------------- the execution state

\* exec_out.events.finalize()
FinalizeEvents(events) == [i \in 1..Len(events) |-> [events[i] EXCEPT !.is_final = TRUE]]

\* ExecutionConfig::max_final_events, scaled to the events of the model
MAX_FINAL_EVENTS == 3

\* EventStore::prune: the oldest events above max_final_events are dropped
PruneEvents(events) ==
    IF Len(events) > MAX_FINAL_EVENTS
    THEN SubSeq(events, Len(events) - MAX_FINAL_EVENTS + 1, Len(events))
    ELSE events

\* ExecutionState::new. Three fields record the last call for the properties:
\* from_cache, which branch the last execute_final_slot that advanced the
\* final cursor took ("found in cache, applied cache" against "execution
\* started"); dropped, whether the last call removed outputs from the active
\* history without finalizing them; panicked, that a call panicked, which
\* ends the thread of the sequencer
ExecutionStateNew(final_state) ==
    [ final_state |-> final_state,
      active_history |-> <<>>,
      active_cursor |-> final_state.slot,
      final_cursor |-> final_state.slot,
      final_events |-> <<>>,
      from_cache |-> FALSE,
      dropped |-> FALSE,
      panicked |-> FALSE ]

\* apply_final_execution_output that leaves active_cursor behind the final cursor
apply_final_execution_output_keep_cursor(es, exec_out) ==
    [ es EXCEPT
           !.final_state = finalize(@, exec_out.slot, exec_out.state_changes),
           !.final_cursor = exec_out.slot,
           !.final_events = PruneEvents(@ \o FinalizeEvents(exec_out.events)) ]

\* apply_final_execution_output without the check of the slot
apply_final_execution_output_unchecked(es, exec_out) ==
    [ es EXCEPT
           !.final_state = finalize(@, exec_out.slot, exec_out.state_changes),
           !.final_cursor = exec_out.slot,
           !.active_cursor = IF SlotLt(es.active_cursor, exec_out.slot) THEN exec_out.slot ELSE @,
           !.final_events = PruneEvents(@ \o FinalizeEvents(exec_out.events)) ]

\* apply_final_execution_output: panics when the slot of the output is at or
\* before final_cursor
apply_final_execution_output(es, exec_out) ==
    IF SlotLe(exec_out.slot, es.final_cursor)
    THEN [es EXCEPT !.panicked = TRUE]
    ELSE [ es EXCEPT
           !.final_state = finalize(@, exec_out.slot, exec_out.state_changes),
           !.final_cursor = exec_out.slot,
           !.active_cursor = IF SlotLt(es.active_cursor, exec_out.slot) THEN exec_out.slot ELSE @,
           !.final_events = PruneEvents(@ \o FinalizeEvents(exec_out.events)) ]

\* a variant that puts the output at the front of the history
apply_active_execution_output_front(es, exec_out) ==
    IF SlotLe(exec_out.slot, es.active_cursor) \/ SlotLe(exec_out.slot, es.final_cursor)
    THEN [es EXCEPT !.panicked = TRUE]
    ELSE [ es EXCEPT !.active_cursor = exec_out.slot,
                     !.active_history = <<exec_out>> \o @ ]

\* apply_active_execution_output: panics when the slot of the output is at or
\* before active_cursor or final_cursor
apply_active_execution_output(es, exec_out) ==
    IF SlotLe(exec_out.slot, es.active_cursor) \/ SlotLe(exec_out.slot, es.final_cursor)
    THEN [es EXCEPT !.panicked = TRUE]
    ELSE [ es EXCEPT !.active_cursor = exec_out.slot,
                     !.active_history = Append(@, exec_out) ]

\* the state once the sequencer has dropped slot and the slots after it
TruncatedFrom(es, slot) ==
    [es EXCEPT !.active_history = truncate_from(@, slot),
               !.active_cursor = get_prev_slot(slot),
               !.dropped = Len(truncate_from(es.active_history, slot)) < Len(es.active_history)]

\* the output of slot executed on the state, applied as an active output
ExecutedCandidate(es, slot, exec_target) ==
    apply_active_execution_output(es,
        execute_slot(es.final_state, es.active_history, slot, exec_target))

\* execute_candidate_slot that executes the slot on top of the whole history
execute_candidate_slot_no_truncate(es, slot, exec_target) ==
    IF SlotLe(slot, es.final_cursor) THEN [es EXCEPT !.panicked = TRUE]
    ELSE ExecutedCandidate([es EXCEPT !.active_cursor = get_prev_slot(slot), !.dropped = FALSE],
                           slot, exec_target)

\* execute_candidate_slot: panics when the slot is at or before final_cursor
execute_candidate_slot(es, slot, exec_target) ==
    IF SlotLe(slot, es.final_cursor) THEN [es EXCEPT !.panicked = TRUE]
    ELSE IF SlotLe(slot, es.active_cursor)
    THEN ExecutedCandidate(TruncatedFrom(es, slot), slot, exec_target)
    ELSE ExecutedCandidate([es EXCEPT !.dropped = FALSE], slot, exec_target)

\* the state whose whole active history was dropped: "truncate the whole
\* execution queue"
Cleared(es) ==
    [es EXCEPT !.active_history = <<>>, !.active_cursor = es.final_cursor,
               !.from_cache = FALSE, !.dropped = Len(es.active_history) > 0]

\* the cached front output, popped and applied to the final state
AppliedCache(es) ==
    apply_final_execution_output(
        [es EXCEPT !.active_history = Tail(@), !.from_cache = TRUE, !.dropped = FALSE],
        es.active_history[1])

\* the slot executed on the final state alone and applied to it
ExecutedFinal(es, slot, exec_target) ==
    apply_final_execution_output(es,
        execute_slot(es.final_state, es.active_history, slot, exec_target))

\* the block id of an execution target
TargetId(exec_target) == IF IsSome(exec_target) THEN Some(Unwrap(exec_target).id) ELSE None

\* execute_final_slot with the cache hit deciding on the slot alone
execute_final_slot_any_block(es, slot, exec_target) ==
    IF SlotLe(slot, es.final_cursor) THEN es
    ELSE IF Len(es.active_history) > 0 /\ es.active_history[1].slot = slot
    THEN AppliedCache(es)
    ELSE ExecutedFinal(Cleared(es), slot, exec_target)

\* execute_final_slot that drops the whole history when it applies the cached output
execute_final_slot_drop_history(es, slot, exec_target) ==
    IF SlotLe(slot, es.final_cursor) THEN es
    ELSE IF /\ Len(es.active_history) > 0
            /\ es.active_history[1].slot = slot
            /\ es.active_history[1].block_id = TargetId(exec_target)
    THEN apply_final_execution_output(
            [es EXCEPT !.active_history = <<>>, !.from_cache = TRUE, !.dropped = FALSE],
            es.active_history[1])
    ELSE ExecutedFinal(Cleared(es), slot, exec_target)

\* execute_final_slot that only pops the front output when the cache misses
execute_final_slot_keep_history(es, slot, exec_target) ==
    IF SlotLe(slot, es.final_cursor) THEN es
    ELSE IF /\ Len(es.active_history) > 0
            /\ es.active_history[1].slot = slot
            /\ es.active_history[1].block_id = TargetId(exec_target)
    THEN AppliedCache(es)
    ELSE ExecutedFinal(
            [es EXCEPT !.active_history = IF Len(@) > 0 THEN Tail(@) ELSE @,
                       !.active_cursor = es.final_cursor, !.from_cache = FALSE,
                       !.dropped = Len(es.active_history) > 0],
            slot, exec_target)

\* execute_final_slot: nothing to do at or before final_cursor; the front
\* output is popped and applied when it is the one of the slot and the block;
\* otherwise the history is cleared and the slot executed
execute_final_slot(es, slot, exec_target) ==
    IF SlotLe(slot, es.final_cursor) THEN es
    ELSE IF /\ Len(es.active_history) > 0
            /\ es.active_history[1].slot = slot
            /\ es.active_history[1].block_id = TargetId(exec_target)
    THEN AppliedCache(es)
    ELSE ExecutedFinal(Cleared(es), slot, exec_target)

\* the candidate value: the history when it has information, else the final value
Candidate(search_result, final) ==
    IF search_result[1] = "Present" THEN Some(search_result[2])
    ELSE IF search_result[1] = "NoInfo" THEN final
    ELSE None

\* get_final_and_candidate_balance: (final, candidate)
get_final_and_candidate_balance(es, addr) ==
    << final_get_balance(es.final_state, addr),
       Candidate(fetch_balance(es.active_history, addr), final_get_balance(es.final_state, addr)) >>

\* the candidate bytecode, as the speculative ledger reads it: the history,
\* then the final state
candidate_bytecode(es, addr) ==
    Candidate(fetch_bytecode(es.active_history, addr), final_get_bytecode(es.final_state, addr))

\* get_final_and_active_data_entry: (final, candidate)
get_final_and_active_data_entry(es, addr, k) ==
    << final_get_data_entry(es.final_state, addr, k),
       Candidate(fetch_active_history_data_entry(es.active_history, addr, k),
                 final_get_data_entry(es.final_state, addr, k)) >>

\* ------------------------------------------ inputs of the execution state

\* the operations the blocks of the model include
Operations ==
    [ o1 |-> [ id |-> "o1", creator_address |-> "A", fee |-> 1, expire_period |-> 2,
               op |-> [type |-> "Transaction", recipient_address |-> "B", amount |-> 2] ],
      o2 |-> [ id |-> "o2", creator_address |-> "A", fee |-> 1, expire_period |-> MaxPeriod + 1,
               op |-> [type |-> "Transaction", recipient_address |-> "B", amount |-> MaxAmount] ],
      o3 |-> [ id |-> "o3", creator_address |-> "B", fee |-> 0, expire_period |-> MaxPeriod + 1,
               op |-> [type |-> "RollBuy", roll_count |-> 1] ],
      o4 |-> [ id |-> "o4", creator_address |-> "A", fee |-> 1, expire_period |-> 2,
               op |-> [type |-> "ExecuteSC", data |-> 1, max_gas |-> 1, gas_price |-> 0,
                       coins |-> 0] ],
      o5 |-> [ id |-> "o5", creator_address |-> "A", fee |-> 1, expire_period |-> 1,
               op |-> [type |-> "Transaction", recipient_address |-> "B", amount |-> 1] ] ]

BlockVariants == {"X", "Y"}

\* the block of a variant at a slot: its id, creator, operations, endorsements
BlockAt(slot, variant) ==
    [ id |-> <<variant, slot.period, slot.thread>>,
      slot |-> slot,
      creator_address |-> IF variant = "X" THEN "B" ELSE "A",
      operations |->
         IF slot.thread = 0
         THEN (IF variant = "X" THEN <<Operations.o1, Operations.o2>>
               ELSE <<Operations.o2, Operations.o1, Operations.o4>>)
         ELSE (IF variant = "X" THEN <<Operations.o3, Operations.o1>> ELSE <<Operations.o3>>),
      endorsements |->
         IF variant = "X" THEN <<>>
         ELSE << [creator_address |-> "B", endorsed_creator |-> "A"] >> ]

\* what a slot can be executed with: no block, or one of its blocks
Targets(slot) == {None} \cup { Some(BlockAt(slot, v)) : v \in BlockVariants }

\* the ledger the final state starts from: two user addresses and a contract
InitialEntries ==
    << <<"A", [balance |-> 10, bytecode |-> EmptyBytecode, datastore |-> EmptyDatastore]>>,
       <<"B", [balance |-> 1, bytecode |-> EmptyBytecode, datastore |-> EmptyDatastore]>>,
       <<"S", [balance |-> 0, bytecode |-> 1, datastore |-> EmptyDatastore]>> >>

\* AsyncMessage
AsyncMessage(emission_index, sender, destination, max_gas, gas_price, coins, validity_start, validity_end) ==
    [ emission_slot |-> GenesisSlot, emission_index |-> emission_index,
      sender |-> sender, destination |-> destination, handler |-> "handle",
      max_gas |-> max_gas, gas_price |-> gas_price, coins |-> coins,
      validity_start |-> validity_start, validity_end |-> validity_end,
      data_utf8 |-> TRUE ]

\* the messages the pool of the final state starts with: one to the contract,
\* one to an address without bytecode
InitialPool ==
    { AsyncMessage(0, "A", "S", 1, 1, 1, Slot(1, 0), Slot(MaxPeriod + 1, 0)),
      AsyncMessage(1, "A", "B", 1, 0, 2, Slot(1, 1), Slot(2, 1)) }

\* the final state at genesis
InitialFinalState ==
    [ slot |-> GenesisSlot,
      changes_history |-> <<>>,
      ledger |-> load_initial_ledger(LedgerDBNew, InitialEntries),
      async_pool |-> InitialPool,
      roll_counts |-> [a \in LAddrs |-> 0],
      production_stats |-> NoProductionStats,
      executed_ops |-> NoExecutedOps ]

\* ----------------------------------------------- one slot, step by step

\* calls to the interface one run of the VM makes at most
MaxAbiCalls == 2

\* the slot and the block the context executes
CtxSlot == Slot(1, 0)
CtxBlock ==
    [ id |-> <<"X", 1, 0>>,
      slot |-> CtxSlot,
      creator_address |-> "B",
      operations |-> <<Operations.o4, Operations.o2, Operations.o1, Operations.o4,
                      Operations.o5>>,
      endorsements |-> <<>> ]

\* the creators and the endorsements the header of the block can carry: the
\* block is CtxBlock but for them
CtxCreators == {"A", "B"}
CtxEndorsements ==
    { <<>>,
      << [creator_address |-> "A", endorsed_creator |-> "B"] >>,
      << [creator_address |-> "B", endorsed_creator |-> "S"] >> }
CtxStoredBlock(creator, endorsements) ==
    [CtxBlock EXCEPT !.creator_address = creator, !.endorsements = endorsements]

\* the final states the slot is executed on: the balance of A, the contract
\* S present or not, and a pool of one message to S, one expired message and
\* one message of a later slot
CtxFinalStates ==
    { [ InitialFinalState EXCEPT
          !.ledger = load_initial_ledger(LedgerDBNew,
                        << <<"A", [balance |-> a, bytecode |-> EmptyBytecode,
                                   datastore |-> EmptyDatastore]>>,
                           <<"B", [balance |-> 1, bytecode |-> EmptyBytecode,
                                   datastore |-> EmptyDatastore]>> >>
                        \o (IF s THEN << <<"S", [balance |-> 0, bytecode |-> 1,
                                                 datastore |-> EmptyDatastore]>> >>
                            ELSE <<>>)),
          !.async_pool =
              { AsyncMessage(0, "A", "S", 1, 1, 1, Slot(1, 0), Slot(MaxPeriod + 1, 0)),
                AsyncMessage(1, "B", "A", 1, 0, 1, Slot(0, 1), Slot(1, 0)),
                AsyncMessage(2, "B", "B", 1, 0, 1, Slot(1, 1), Slot(MaxPeriod + 1, 1)) } ]
      : a \in {10, MaxAmount}, s \in BOOLEAN }

\* the position of the slot execution and what it keeps between two steps
RunNew ==
    [ pc |-> "start",
      batch |-> <<>>,                   \* the messages still to execute
      operations |-> <<>>,              \* the operations still to execute
      message |-> None,                 \* the message being executed
      operation |-> None,               \* the operation being executed
      snapshot |-> None,                \* context_snapshot
      remaining_block_gas |-> MAX_GAS_PER_BLOCK,
      block_credits |-> BLOCK_REWARD,
      abi_calls |-> 0,
      abi_error |-> "None",             \* the host call that failed and stopped the run
      abi_before |-> None,              \* the context before the failed host call
      block |-> None,                   \* the block whose rewards were paid
      result |-> "None",                \* the result of the checks of the last operation
      last |-> "None",                  \* what the last step did
      before |-> None,                  \* the context before the last message or operation
      at_snapshot |-> None,             \* the context when the snapshot was taken
      out |-> None ]                    \* the output of the slot

\* the message sender emits at created_message_index
NewMessage(c, sender, destination, max_gas, gas_price, coins) ==
    [ emission_slot |-> c.slot, emission_index |-> c.created_message_index,
      sender |-> sender, destination |-> destination, handler |-> "handle",
      max_gas |-> max_gas, gas_price |-> gas_price, coins |-> coins,
      validity_start |-> c.slot, validity_end |-> Slot(MaxPeriod + 1, c.slot.thread),
      data_utf8 |-> TRUE ]

\* the message is pushed once its coins are debited
MessageSent(c, debit, msg) ==
    IF ~debit.ok THEN Err(c)
    ELSE Ok([push_new_message(debit.c, msg) EXCEPT !.created_message_index = @ + 1])

\* send_message of the interface: the message takes created_message_index as
\* its emission index, its coins are debited from the sender, it is pushed
send_message(c, destination, max_gas, gas_price, coins) ==
    IF get_current_address(c) = None THEN Err(c)
    ELSE MessageSent(c, transfer_coins(c, get_current_address(c), None, coins, TRUE),
                     NewMessage(c, Unwrap(get_current_address(c)), destination,
                                max_gas, gas_price, coins))

\* unsafe_random of the interface: one draw of the generator
unsafe_random(c) == Ok([c EXCEPT !.unsafe_rng.draws = @ + 1])

\* generate_event of the interface
generate_event(c, text) == Ok(event_emit(c, event_create(c, <<"event", text, "">>)))

\* the balance of addr after the changes of an output
OutBalance(out, fs, addr) ==
    ViewRead(BalanceInfo(out.state_changes.ledger_changes[addr]), NoInfo,
             final_get_balance(fs, addr))

\* the coins of the messages of msgs sent by addr
RECURSIVE SumCoins(_, _, _)
SumCoins(msgs, addr, i) ==
    IF i > Len(msgs) THEN 0
    ELSE (IF msgs[i].sender = addr THEN msgs[i].coins ELSE 0) + SumCoins(msgs, addr, i + 1)

\* ============================================================== variables

Replicas == {1, 2}

VARIABLES
    ledger,         \* the LedgerDB: column families ledger and metadata
    load_initial,   \* the initial ledger given to load_initial_ledger
    load_order,     \* per replica: the addresses its HashMap iteration has yielded
    load_batch,     \* per replica: the LedgerBatch of load_initial_ledger
    load_db,        \* per replica: the LedgerDB
    node,           \* the ExecutionState of the node
    reference,      \* an ExecutionState that is only given the final slots
    ctx,            \* the ExecutionContext of the slot being executed
    run             \* the position of the execution of that slot

ledgerVars == <<ledger>>
loadVars == <<load_initial, load_order, load_batch, load_db>>
execVars == <<node, reference>>
ctxVars == <<ctx, run>>
vars == <<ledger, load_initial, load_order, load_batch, load_db, node, reference, ctx, run>>

IdleExec ==
    /\ node = ExecutionStateNew(InitialFinalState)
    /\ reference = ExecutionStateNew(InitialFinalState)
IdleCtx ==
    /\ ctx = ExecutionContextNew(InitialFinalState, <<>>)
    /\ run = RunNew
IdleLedger == ledger = LedgerDBNew
IdleLoad ==
    /\ load_initial = [a \in LAddrs |-> None]
    /\ load_order = [r \in Replicas |-> <<>>]
    /\ load_batch = [r \in Replicas |-> LedgerBatchNew(LEDGER_HASH_INITIAL)]
    /\ load_db = [r \in Replicas |-> LedgerDBNew]

\* --------------------------------------------------- the disk ledger alone

InitLedger == IdleLedger /\ IdleLoad /\ IdleExec /\ IdleCtx

\* FinalLedger::new: the initial ledger is loaded into the fresh database
LoadInitialLedger ==
    /\ ledger = LedgerDBNew
    /\ \E initial \in InitialLedgers :
         /\ initial[LAddrOrder[2]] \in {None, Some([balance |-> MaxVal, bytecode |-> EmptyBytecode,
                                                  datastore |-> [k \in DataKeys |-> None]])}
         /\ initial[LAddrOrder[3]] = None
         /\ ledger' = load_initial_ledger(ledger, EntriesInOrder(initial, 1))
    /\ UNCHANGED <<loadVars, execVars, ctxVars>>

\* LedgerDB::apply_changes(changes, slot), slots strictly increasing
ApplyChanges ==
    /\ IsSome(ledger.slot)
    /\ \E changes \in LedgerChangeMaps, slot \in Slots :
         /\ SlotLt(Unwrap(ledger.slot), slot)
         /\ ledger' = apply_changes(ledger, changes, slot)
    /\ UNCHANGED <<loadVars, execVars, ctxVars>>

NextLedger == LoadInitialLedger \/ ApplyChanges

SpecLedger == InitLedger /\ [][NextLedger]_vars

\* ------------------------- load_initial_ledger, iteration order unspecified

InitLoad ==
    /\ IdleLedger
    /\ IdleExec
    /\ IdleCtx
    /\ load_initial \in InitialLedgers
    /\ load_order = [r \in Replicas |-> <<>>]
    /\ load_batch = [r \in Replicas |-> LedgerBatchNew(LEDGER_HASH_INITIAL)]
    /\ load_db = [r \in Replicas |-> LedgerDBNew]

Loaded(r) == { load_order[r][i] : i \in 1..Len(load_order[r]) }
ToLoad == { a \in LAddrs : IsSome(load_initial[a]) }

\* one iteration of `for (address, entry) in initial_ledger`
LoadPutEntry(r) ==
    /\ load_db[r] = LedgerDBNew
    /\ \E a \in ToLoad \ Loaded(r) :
         /\ load_batch' = [load_batch EXCEPT
                 ![r] = put_entry(load_db[r], @, a, Unwrap(load_initial[a]))]
         /\ load_order' = [load_order EXCEPT ![r] = Append(@, a)]
    /\ UNCHANGED <<load_initial, load_db, ledgerVars, execVars, ctxVars>>

\* the end of the loop: set_slot and write_batch
LoadFinish(r) ==
    /\ load_db[r] = LedgerDBNew
    /\ Loaded(r) = ToLoad
    /\ load_db' = [load_db EXCEPT
            ![r] = write_batch(@, set_slot(@, load_batch[r], GenesisSlot))]
    /\ UNCHANGED <<load_initial, load_order, load_batch, ledgerVars, execVars, ctxVars>>

NextLoad == \E r \in Replicas : LoadPutEntry(r) \/ LoadFinish(r)

SpecLoad == InitLoad /\ [][NextLoad]_vars

\* ------------------------------------------------- the slot sequencer

Init ==
    /\ IdleExec /\ IdleCtx
    /\ IdleLedger
    /\ IdleLoad

\* the step of execute_candidate_slot(slot, exec_target) on the node
CandidateStep(slot, exec_target) ==
    /\ ~node.panicked
    /\ node' = execute_candidate_slot(node, slot, exec_target)
    /\ UNCHANGED <<reference, ledgerVars, loadVars, ctxVars>>

\* the sequencer executes a candidate slot of the blockclique: it goes
\* through the slots after final_cursor in order, so that the slot it executes,
\* again or for the first time, is at most the slot after active_cursor
ExecuteCandidateSlot ==
    \E slot \in Slots : \E exec_target \in Targets(slot) :
         /\ SlotLt(node.final_cursor, slot)
         /\ SlotLe(slot, get_next_slot(node.active_cursor))
         /\ CandidateStep(slot, exec_target)

\* the step of execute_final_slot(slot, exec_target) on the node and on the
\* reference, which is given the final slots only
FinalStep(slot, exec_target) ==
    /\ ~node.panicked
    /\ node' = execute_final_slot(node, slot, exec_target)
    /\ reference' = execute_final_slot(reference, slot, exec_target)
    /\ UNCHANGED <<ledgerVars, loadVars, ctxVars>>

\* the sequencer executes a slot that became final
ExecuteFinalSlot ==
    \E slot \in Slots : \E exec_target \in Targets(slot) : FinalStep(slot, exec_target)

Next == ExecuteCandidateSlot \/ ExecuteFinalSlot

Spec == Init /\ [][Next]_vars

\* the step of a caller that executes a slot on the final state and applies
\* its output with apply_final_execution_output, whatever the slot (on the
\* node and on the reference)
ApplyStep(slot, exec_target) ==
    /\ ~node.panicked
    /\ Len(node.active_history) = 0
    /\ node' = ExecutedFinal(node, slot, exec_target)
    /\ reference' = ExecutedFinal(reference, slot, exec_target)
    /\ UNCHANGED <<ledgerVars, loadVars, ctxVars>>

ApplyFinalOutput ==
    \E slot \in Slots : \E exec_target \in Targets(slot) : ApplyStep(slot, exec_target)

NextApply == ExecuteCandidateSlot \/ ExecuteFinalSlot \/ ApplyFinalOutput

\* the execution state with the public apply_final_execution_output called
\* without the guard of execute_final_slot
SpecApply == Init /\ [][NextApply]_vars


\* --------------------------------------------------------------- SpecCtx
\* execute_slot on one context, the VM running the handlers of the messages
\* and the bytecode of the ExecuteSC operations one interface call at a time.

InitCtx ==
    /\ IdleLedger /\ IdleLoad /\ IdleExec
    /\ \E fs \in CtxFinalStates :
          ctx = active_slot(CtxSlot, Some(CtxBlock.id), fs, <<>>)
    /\ run = RunNew

\* the step of the batch b
CtxBatchTaken(b) ==
    /\ ctx' = b.c
    /\ run' = [run EXCEPT !.pc = "messages", !.batch = b.messages,
                          !.operations = CtxBlock.operations, !.last = "Batch"]

\* let messages = context.take_async_batch(max_async_gas)
CtxTakeAsyncBatch ==
    /\ run.pc = "start"
    /\ CtxBatchTaken(take_async_batch(ctx, MAX_ASYNC_GAS))
    /\ UNCHANGED <<ledgerVars, loadVars, execVars>>

\* the step of the message whose checks and credit gave b
CtxMessageBegun(message, b) ==
    /\ ctx' = b.c
    /\ run' = [run EXCEPT !.batch = Tail(@),
                          !.message = Some(message),
                          !.operation = None,
                          !.snapshot = b.snapshot,
                          !.before = Some(ctx),
                          !.at_snapshot = Some(ctx),
                          !.abi_calls = 0,
                          !.abi_error = "None",
                          !.abi_before = None,
                          !.pc = IF b.result = "Err" THEN "messages" ELSE "handler",
                          !.last = IF b.result = "Err" THEN "MessageFailed"
                                   ELSE "MessageCredited"]

\* execute_async_message up to the run of the handler, or to its failure
CtxAsyncMessage ==
    /\ run.pc = "messages"
    /\ run.batch /= <<>>
    /\ CtxMessageBegun(run.batch[1][2],
                       ExecuteAsyncMessageBegin(ctx, run.batch[1][2], run.batch[1][1]))
    /\ UNCHANGED <<ledgerVars, loadVars, execVars>>

\* what the VM can return: an error once a host call failed, anything else
\* depends on the bytecode
VmReturns == IF run.abi_error = "None" THEN BOOLEAN ELSE {FALSE}

\* the handler returns, with or without an error
CtxHandlerReturn ==
    /\ run.pc = "handler"
    /\ \E run_ok \in VmReturns :
          /\ ctx' = ExecuteAsyncMessageEnd(ctx, Unwrap(run.snapshot), Unwrap(run.message), run_ok)
          /\ run' = [run EXCEPT !.abi_before = None, !.pc = "messages", !.snapshot = None,
                                !.last = IF run_ok THEN "MessageDone" ELSE "MessageFailed"]
    /\ UNCHANGED <<ledgerVars, loadVars, execVars>>

\* the operation is taken from the block: what the run keeps of it
CtxOperationTaken(operation, b) ==
    [run EXCEPT !.operations = Tail(@),
                !.operation = Some(operation),
                !.message = None,
                !.before = Some(ctx),
                !.remaining_block_gas = b.remaining_block_gas,
                !.block_credits = b.block_credits,
                !.result = b.result,
                !.abi_error = "None",
                !.abi_before = None,
                !.abi_calls = 0]

\* the step of an accepted operation that runs no bytecode, its body giving body
CtxOperationDone(operation, b, body) ==
    /\ ctx' = ExecuteOperationEnd(body.c, Unwrap(b.snapshot), operation, body.ok)
    /\ run' = [CtxOperationTaken(operation, b) EXCEPT
                  !.at_snapshot = Some(b.c),
                  !.last = IF body.ok THEN "OperationDone" ELSE "OperationFailed"]

\* the step of the operation whose checks and fee debit gave b
CtxOperationBegun(operation, b) ==
    IF b.result /= "Accepted"
    THEN /\ ctx' = b.c
         /\ run' = [CtxOperationTaken(operation, b) EXCEPT !.last = "OperationRejected"]
    ELSE IF operation.op.type = "ExecuteSC"
    THEN /\ ctx' = ExecuteScBegin(b.c, operation, operation.creator_address).c
         /\ run' = [CtxOperationTaken(operation, b) EXCEPT
                       !.pc = "body", !.snapshot = b.snapshot,
                       !.at_snapshot = Some(b.c), !.last = "OperationAccepted"]
    ELSE CtxOperationDone(operation, b, OperationBody(b.c, operation))

\* execute_operation: whole for the operations that run no bytecode, up to
\* the run of the bytecode for ExecuteSC
CtxOperation ==
    /\ run.pc = "messages"
    /\ run.batch = <<>>
    /\ run.operations /= <<>>
    /\ CtxOperationBegun(run.operations[1],
                         ExecuteOperationBegin(ctx, run.operations[1], CtxSlot,
                                               run.remaining_block_gas, run.block_credits))
    /\ UNCHANGED <<ledgerVars, loadVars, execVars>>

\* the bytecode of the operation returns, with or without an error
CtxBodyReturn ==
    /\ run.pc = "body"
    /\ \E body_ok \in VmReturns :
          /\ ctx' = ExecuteOperationEnd(ctx, Unwrap(run.snapshot), Unwrap(run.operation), body_ok)
          /\ run' = [run EXCEPT !.abi_before = None, !.pc = "messages", !.snapshot = None,
                                !.last = IF body_ok THEN "OperationDone" ELSE "OperationFailed"]
    /\ UNCHANGED <<ledgerVars, loadVars, execVars>>

\* one call of the running bytecode to the interface, with its result: a
\* failed call stops the run, error being what is kept of the failure
AbiCalled(result, error) ==
    /\ run.pc \in {"handler", "body"}
    /\ run.abi_calls < MaxAbiCalls
    /\ run.abi_error = "None"
    /\ ctx' = result.c
    /\ run' = [run EXCEPT !.abi_calls = @ + 1,
                          !.abi_error = IF result.ok THEN "None" ELSE error,
                          !.abi_before = IF result.ok /\ error /= "Denied" THEN None
                                          ELSE Some(ctx),
                          !.last = IF error = "Denied" THEN "AbiDenied" ELSE "Abi"]
    /\ UNCHANGED <<ledgerVars, loadVars, execVars>>

AbiCall(result) == AbiCalled(result, "Failed")

\* one call of the running bytecode that writes to addr: the call is denied
\* when the top frame of the call stack does not own addr
AbiWrite(addr, result) ==
    AbiCalled(result, IF addr \in OwnedAddresses(ctx) THEN "Failed" ELSE "Denied")

AbiTransferCoins ==
    \E to_addr \in {"A", "B"} :
        AbiCall(transfer_coins(ctx, get_current_address(ctx), Some(to_addr), 1, TRUE))

\* a transfer the bytecode asks for from an address it names
AbiTransferCoinsFor ==
    \E from_addr \in {"A", "S"} :
        AbiWrite(from_addr, transfer_coins(ctx, Some(from_addr), Some("B"), 1, TRUE))

AbiSetDataEntry ==
    \E addr \in {"A", "S"} : \E data \in Vals :
        AbiWrite(addr, set_data_entry(ctx, addr, DataKeyOrder[1], data))

AbiAppendDataEntry ==
    \E addr \in {"A", "S"} :
        /\ IsSome(get_data_entry(ctx, addr, DataKeyOrder[1])) =>
              Unwrap(get_data_entry(ctx, addr, DataKeyOrder[1])) < MaxVal
        /\ AbiWrite(addr, append_data_entry(ctx, addr, DataKeyOrder[1], 1))

AbiDeleteDataEntry ==
    \E addr \in {"A", "S"} : AbiWrite(addr, delete_data_entry(ctx, addr, DataKeyOrder[1]))

AbiSetBytecode ==
    \E addr \in {"A", "S"} :
        AbiCalled(set_bytecode(ctx, addr, 1),
                  IF addr \notin OwnedAddresses(ctx) THEN "Denied"
                  ELSE IF ctx.creator_address = Some(addr) THEN "CreatorBytecode"
                  ELSE "Failed")

\* the addresses created at the other slots are not addresses of the model
AbiCreateScAddress ==
    /\ ctx.slot = CtxSlot
    /\ AbiCall(create_new_sc_address(ctx, 1))

AbiSendMessage == AbiCall(send_message(ctx, "S", 1, 0, 1))

AbiGenerateEvent == AbiCall(generate_event(ctx, "e"))

AbiUnsafeRandom == AbiCall(unsafe_random(ctx))

\* the end of the block: the production statistics and the rewards
CtxBlockRewards ==
    /\ run.pc = "messages"
    /\ run.batch = <<>>
    /\ run.operations = <<>>
    /\ \E creator \in CtxCreators : \E endorsements \in CtxEndorsements :
          /\ ctx' = BlockRewards(ctx, CtxSlot, CtxStoredBlock(creator, endorsements),
                                 run.block_credits)
          /\ run' = [run EXCEPT !.pc = "settle", !.last = "Rewards",
                                !.before = Some(ctx),
                                !.block = Some(CtxStoredBlock(creator, endorsements))]
    /\ UNCHANGED <<ledgerVars, loadVars, execVars>>

\* the step of the settlement r
CtxSettled(r) ==
    /\ ctx' = r.c
    /\ run' = [run EXCEPT !.pc = "done", !.last = "Settled", !.before = Some(ctx),
                          !.out = Some(r.out)]

\* context.settle_slot()
CtxSettleSlot ==
    /\ run.pc = "settle"
    /\ CtxSettled(settle_slot(ctx))
    /\ UNCHANGED <<ledgerVars, loadVars, execVars>>

NextCtx ==
    \/ CtxTakeAsyncBatch
    \/ CtxAsyncMessage
    \/ CtxHandlerReturn
    \/ CtxOperation
    \/ CtxBodyReturn
    \/ AbiTransferCoins
    \/ AbiTransferCoinsFor
    \/ AbiSetDataEntry
    \/ AbiAppendDataEntry
    \/ AbiDeleteDataEntry
    \/ AbiSetBytecode
    \/ AbiCreateScAddress
    \/ AbiSendMessage
    \/ AbiGenerateEvent
    \/ AbiUnsafeRandom
    \/ CtxBlockRewards
    \/ CtxSettleSlot

SpecCtx == InitCtx /\ [][NextCtx]_vars


\* ------------------------------------- candidate slots, one call at a time
\* The active history is built slot after slot by bytecode that calls the
\* interface, and its front output is finalized from time to time.

\* slots the bytecode is run at
MaxViewSlots == 3

\* the final states the history is built on: an empty pool, and the address of
\* the contract the bytecode creates absent, or present because coins were
\* sent to it
ViewFinalStates ==
    { [ InitialFinalState EXCEPT
          !.ledger = load_initial_ledger(LedgerDBNew,
                        << <<"A", [balance |-> 10, bytecode |-> EmptyBytecode,
                                   datastore |-> EmptyDatastore]>>,
                           <<"B", [balance |-> 1, bytecode |-> EmptyBytecode,
                                   datastore |-> EmptyDatastore]>> >>
                        \o (IF s THEN << <<"S", [balance |-> 1, bytecode |-> EmptyBytecode,
                                                 datastore |-> EmptyDatastore]>> >>
                            ELSE <<>>)),
          !.async_pool = {} ]
      : s \in BOOLEAN }

InitView ==
    /\ IdleLedger /\ IdleLoad
    /\ ctx = ExecutionContextNew(InitialFinalState, <<>>)
    /\ \E fs \in ViewFinalStates :
         /\ node = ExecutionStateNew(fs)
         /\ reference = ExecutionStateNew(fs)
    /\ run = [RunNew EXCEPT !.pc = "idle"]

\* the context of the slot once the bytecode of address runs, owning address
ViewContext(slot, address) ==
    [ active_slot(slot, None, node.final_state, node.active_history) EXCEPT
        !.stack = <<StackElement(address, 0, <<address>>)>> ]

\* the slot after active_cursor starts: the bytecode of an operation of A runs,
\* or the bytecode of the contract S once it has one
ViewBegin ==
    /\ run.pc = "idle"
    /\ ~node.panicked
    /\ get_next_slot(node.active_cursor) \in Slots
    /\ slots_since(get_next_slot(node.active_cursor), GenesisSlot) <= MaxViewSlots
    /\ \E address \in {"A", "S"} :
         /\ entry_exists(ViewContext(get_next_slot(node.active_cursor), address), address)
         /\ \/ address = "A"
            \/ get_bytecode(ViewContext(get_next_slot(node.active_cursor), address), address)
                  /= Some(EmptyBytecode)
         /\ ctx' = ViewContext(get_next_slot(node.active_cursor), address)
    /\ run' = [run EXCEPT !.abi_before = None, !.abi_error = "None",
                          !.pc = "body", !.abi_calls = 0, !.last = "Begin"]
    /\ UNCHANGED <<ledgerVars, loadVars, execVars>>

\* the slot is settled, its output pushed to the active history and the
\* context dropped
ViewSettle ==
    /\ run.pc = "body"
    /\ node' = apply_active_execution_output(node, settle_slot(ctx).out)
    /\ ctx' = ExecutionContextNew(InitialFinalState, <<>>)
    /\ run' = [run EXCEPT !.abi_before = None, !.abi_error = "None",
                          !.pc = "idle", !.abi_calls = 0, !.last = "Settled"]
    /\ UNCHANGED <<reference, ledgerVars, loadVars>>

\* the front output becomes final
ViewFinalize ==
    /\ run.pc = "idle"
    /\ ~node.panicked
    /\ Len(node.active_history) > 0
    /\ node' = AppliedCache(node)
    /\ UNCHANGED <<reference, ledgerVars, loadVars, ctxVars>>

NextView ==
    \/ ViewBegin
    \/ AbiTransferCoins
    \/ AbiSetDataEntry
    \/ AbiDeleteDataEntry
    \/ AbiSetBytecode
    \/ AbiCreateScAddress
    \/ ViewSettle
    \/ ViewFinalize

SpecView == InitView /\ [][NextView]_vars


\* --------------------------------------------------- read-only executions

\* ExecutionContext::readonly: seed = hash(slot ++ [0])
readonly(slot, max_gas, gas_price, call_stack, fs, ah) ==
    [ ExecutionContextNew(fs, ah) EXCEPT
        !.max_gas = max_gas,
        !.gas_price = gas_price,
        !.slot = slot,
        !.stack = call_stack,
        !.read_only = TRUE,
        !.unsafe_rng = RngFromSeed(<<slot.period, slot.thread, 0>>) ]

\* the bytecode a read-only request runs: the one it carries, or the one of
\* the target address, the empty bytecode when it has none
ReadonlyBytecode(c, target) ==
    IF target.kind = "BytecodeExecution" THEN target.bytecode
    ELSE IF IsSome(get_bytecode(c, target.target_addr))
    THEN Unwrap(get_bytecode(c, target.target_addr))
    ELSE EmptyBytecode

\* execute_readonly_request up to the run of the bytecode: the execution state
\* it leaves and the context it installs, at the slot after active_cursor
execute_readonly_request_begin(es, req) ==
    [ es |-> es,
      c |-> readonly(get_next_slot(es.active_cursor), req.max_gas, req.simulated_gas_price,
                     req.call_stack, es.final_state, es.active_history) ]

\* execute_readonly_request that pushes its output to the active history
execute_readonly_request_end_applied(es, c, run_ok) ==
    IF ~run_ok THEN [es |-> es, c |-> c, out |-> None]
    ELSE [ es |-> [es EXCEPT !.active_history = Append(@, settle_slot(c).out),
                             !.active_cursor = c.slot],
           c |-> settle_slot(c).c, out |-> Some(settle_slot(c).out) ]

\* execute_readonly_request once the bytecode returned: an error is returned
\* as it is, otherwise the context is settled and its output returned
execute_readonly_request_end(es, c, run_ok) ==
    IF ~run_ok THEN [es |-> es, c |-> c, out |-> None]
    ELSE [es |-> es, c |-> settle_slot(c).c, out |-> Some(settle_slot(c).out)]

\* the execution states the requests are received in: after construction,
\* after candidate slots, after a blockclique switch, after a finalization
ReadonlyStates ==
    LET s0 == ExecutionStateNew(InitialFinalState)
        s1 == execute_candidate_slot(s0, Slot(1, 0), Some(BlockAt(Slot(1, 0), "X")))
        s2 == execute_candidate_slot(s1, Slot(1, 1), Some(BlockAt(Slot(1, 1), "Y")))
        s3 == execute_candidate_slot(s2, Slot(1, 0), Some(BlockAt(Slot(1, 0), "Y")))
        s4 == execute_final_slot(s2, Slot(1, 0), Some(BlockAt(Slot(1, 0), "X")))
    IN {s0, s1, s2, s3, s4}

\* ReadOnlyExecutionRequest
ReadOnlyRequests ==
    [ max_gas : {1},
      simulated_gas_price : {0},
      call_stack : { <<>>, <<StackElement("A", 0, <<"A">>)>>,
                     <<StackElement("B", 0, <<"B">>), StackElement("S", 1, <<"S">>)>> },
      target : { [kind |-> "BytecodeExecution", bytecode |-> 1, target_addr |-> "A"],
                 [kind |-> "FunctionCall", bytecode |-> EmptyBytecode, target_addr |-> "S"],
                 [kind |-> "FunctionCall", bytecode |-> EmptyBytecode, target_addr |-> "B"] } ]

InitReadonly ==
    /\ IdleLedger /\ IdleLoad
    /\ node \in ReadonlyStates
    /\ reference = ExecutionStateNew(InitialFinalState)
    /\ ctx = ExecutionContextNew(InitialFinalState, <<>>)
    /\ run = [RunNew EXCEPT !.pc = "idle"]

\* the step of the request up to the run of its bytecode; the empty bytecode
\* fails at once
ReadonlyBegun(b, bytecode) ==
    /\ node' = b.es
    /\ ctx' = b.c
    /\ run' = [run EXCEPT !.abi_before = None, !.abi_error = "None",
                          !.pc = IF RunVm(b.c, bytecode).ok THEN "body" ELSE "idle",
                          !.abi_calls = 0,
                          !.before = Some(node),
                          !.out = None,
                          !.last = IF RunVm(b.c, bytecode).ok THEN "ReadonlyBegun"
                                   ELSE "ReadonlyFailed"]

\* a read-only request is received
ReadonlyBegin ==
    /\ run.pc = "idle"
    /\ \E req \in ReadOnlyRequests :
         ReadonlyBegun(execute_readonly_request_begin(node, req),
                       ReadonlyBytecode(execute_readonly_request_begin(node, req).c, req.target))
    /\ UNCHANGED <<reference, ledgerVars, loadVars>>

\* the step of the request once its bytecode returned
ReadonlyReturned(r, run_ok) ==
    /\ node' = r.es
    /\ ctx' = r.c
    /\ run' = [run EXCEPT !.abi_before = None, !.abi_error = "None",
                          !.pc = "idle", !.out = r.out,
                          !.last = IF run_ok THEN "ReadonlyDone" ELSE "ReadonlyFailed"]

\* the bytecode of the request returns, with or without an error
ReadonlyReturn ==
    /\ run.pc = "body"
    /\ \E run_ok \in VmReturns :
         ReadonlyReturned(execute_readonly_request_end(node, ctx, run_ok), run_ok)
    /\ UNCHANGED <<reference, ledgerVars, loadVars>>

NextReadonly ==
    \/ ReadonlyBegin
    \/ AbiTransferCoins
    \/ AbiSetDataEntry
    \/ AbiDeleteDataEntry
    \/ AbiSetBytecode
    \/ AbiCreateScAddress
    \/ AbiSendMessage
    \/ AbiGenerateEvent
    \/ AbiUnsafeRandom
    \/ ReadonlyReturn

SpecReadonly == InitReadonly /\ [][NextReadonly]_vars


\* -------------------------------------------------------------- SpecAddr
\* The addresses create_new_sc_address derives during one slot. The context
\* is reduced to what the derivation and the rollback use: the slot, the
\* read-only flag, the creation counter, the call stack as the owned
\* addresses of its frames, and the entries of the speculative ledger that
\* were created.

\* creations of one context
MaxCreated == 3

\* the seed: slot.to_bytes_key() ++ created_addr_index.to_be_bytes() ++ the
\* read-only flag. The hash is taken as collision-free: the address is the seed
ScAddressSeedNoFlag(c) == <<c.slot.period, c.slot.thread, c.created_addr_index>>

ScAddressSeed(c) ==
    <<c.slot.period, c.slot.thread, c.created_addr_index, IF c.read_only THEN 0 ELSE 1>>

\* the context of an active execution of slot, before any bytecode is run
AddrActiveSlot(slot) ==
    [ slot |-> slot, read_only |-> FALSE, created_addr_index |-> 0,
      stack |-> <<>>, created |-> <<>> ]

\* the context of a read-only execution at slot with its call stack
AddrReadonly(slot) ==
    [ slot |-> slot, read_only |-> TRUE, created_addr_index |-> 0,
      stack |-> << <<"A">> >>, created |-> <<>> ]

\* get_snapshot and reset_to_snapshot on the reduced context
AddrSnapshot(c) ==
    [ created |-> c.created, created_addr_index |-> c.created_addr_index, stack |-> c.stack ]

AddrReset(c, snapshot) ==
    [ c EXCEPT !.created = snapshot.created,
               !.created_addr_index = snapshot.created_addr_index,
               !.stack = snapshot.stack ]

\* create_new_sc_address on the reduced context: the address and the context
AddrCreated(c) ==
    IF Len(c.stack) = 0 THEN [ok |-> FALSE, address |-> None, c |-> c]
    ELSE [ ok |-> TRUE, address |-> Some(ScAddressSeed(c)),
           c |-> [ c EXCEPT !.created = Append(@, ScAddressSeed(c)),
                            !.stack[Len(c.stack)] = Append(@, ScAddressSeed(c)),
                            !.created_addr_index = @ + 1 ] ]

AddrRunNew ==
    [ pc |-> "idle",          \* idle, or unit while an operation or message runs
      snapshot |-> None,      \* the snapshot of the running operation or message
      readonly |-> None,      \* the context of the read-only execution
      address |-> None,       \* the address the last call returned
      earlier |-> <<>>,       \* the addresses created before that call
      last |-> "None" ]

InitAddr ==
    /\ IdleLedger /\ IdleLoad /\ IdleExec
    /\ \E slot \in Slots : ctx = AddrActiveSlot(slot)
    /\ run = AddrRunNew

\* an operation or a message begins: the snapshot is taken, the stack is set
AddrUnitBegin ==
    /\ run.pc = "idle"
    /\ ctx' = [ctx EXCEPT !.stack = << <<"A">> >>]
    /\ run' = [run EXCEPT !.pc = "unit", !.snapshot = Some(AddrSnapshot(ctx)),
                          !.address = None, !.earlier = <<>>, !.last = "Begin"]
    /\ UNCHANGED <<ledgerVars, loadVars, execVars>>

\* the bytecode of the active execution calls create_new_sc_address
AddrCreate ==
    /\ run.pc = "unit"
    /\ ctx.created_addr_index < MaxCreated
    /\ ctx' = AddrCreated(ctx).c
    /\ run' = [run EXCEPT !.address = AddrCreated(ctx).address,
                          !.earlier = ctx.created, !.last = "Created"]
    /\ UNCHANGED <<ledgerVars, loadVars, execVars>>

\* the operation or message ends: with an error the context is reset to the
\* snapshot, and in both cases the stack is emptied
AddrUnitEnd ==
    /\ run.pc = "unit"
    /\ \E ok \in BOOLEAN :
          /\ ctx' = [(IF ok THEN ctx ELSE AddrReset(ctx, Unwrap(run.snapshot)))
                       EXCEPT !.stack = <<>>]
          /\ run' = [run EXCEPT !.pc = "idle", !.snapshot = None, !.address = None,
                                !.earlier = <<>>,
                                !.last = IF ok THEN "Done" ELSE "Failed"]
    /\ UNCHANGED <<ledgerVars, loadVars, execVars>>

\* a read-only request is executed at a slot, its context built anew
AddrReadonlyBegin ==
    /\ \E slot \in Slots :
          run' = [run EXCEPT !.readonly = Some(AddrReadonly(slot)), !.last = "Readonly"]
    /\ UNCHANGED <<ctx, ledgerVars, loadVars, execVars>>

\* the bytecode of the read-only request calls create_new_sc_address
AddrReadonlyCreate ==
    /\ IsSome(run.readonly)
    /\ Unwrap(run.readonly).created_addr_index < MaxCreated
    /\ run' = [run EXCEPT !.readonly = Some(AddrCreated(Unwrap(run.readonly)).c),
                          !.last = "ReadonlyCreated"]
    /\ UNCHANGED <<ctx, ledgerVars, loadVars, execVars>>

NextAddr ==
    \/ AddrUnitBegin
    \/ AddrCreate
    \/ AddrUnitEnd
    \/ AddrReadonlyBegin
    \/ AddrReadonlyCreate

SpecAddr == InitAddr /\ [][NextAddr]_vars

\* --------------------------------------------------------------- SpecMsg
\* The identifier of an asynchronous message and the serialized forms of
\* the identifier and of the message. Bytes are the integers 0..255.

\* the length the data of a message can have when it is deserialized
MAX_ASYNC_MESSAGE_DATA == 2

\* bytes of the serialized form of an address
AddressLen == 2

\* U64VarIntSerializer: seven bits a byte, low bits first, the high bit set
\* on every byte but the last
RECURSIVE VarInt(_)
VarInt(n) == IF n < 128 THEN <<n>> ELSE <<128 + (n % 128)>> \o VarInt(n \div 128)

\* SlotSerializer
SerializeSlot(slot) == VarInt(slot.period) \o <<slot.thread>>

\* AmountSerializer: the raw amount as a varint
SerializeAmount(amount) == VarInt(amount)

\* Address::to_bytes: a fixed number of bytes
AddressByte(addr) == IF addr = "A" THEN 65 ELSE IF addr = "B" THEN 66 ELSE 83
AddressBytes(addr) == [i \in 1..AddressLen |-> IF i = AddressLen THEN AddressByte(addr) ELSE 0]

\* VecU8Serializer: the length as a varint, then the bytes
SerializeVecU8(data) == VarInt(Len(data)) \o data

\* the fee of an identifier, which the model of compute_id keeps negated
IdAmount(id) == 0 - id[1]

\* a variant that serializes the complement of the amount to the maximum
SerializeIdComplemented(id) ==
    SerializeAmount(MaxAmount - IdAmount(id)) \o SerializeSlot(Slot(id[2], id[3])) \o VarInt(id[4])

\* AsyncMessageIdSerializer::serialize
SerializeId(id) == SerializeAmount(IdAmount(id)) \o SerializeSlot(Slot(id[2], id[3])) \o VarInt(id[4])

\* AsyncMessageSerializer::serialize: the bytes, or an error when the length
\* of the handler does not fit in a byte
SerializeMessage(m) ==
    IF Len(m.handler) > 255 THEN [ok |-> FALSE, bytes |-> <<>>]
    ELSE [ ok |-> TRUE,
           bytes |-> SerializeSlot(m.emission_slot) \o VarInt(m.emission_index)
                     \o AddressBytes(m.sender) \o AddressBytes(m.destination)
                     \o <<Len(m.handler)>> \o m.handler
                     \o VarInt(m.max_gas) \o SerializeAmount(m.gas_price)
                     \o SerializeAmount(m.coins)
                     \o SerializeSlot(m.validity_start) \o SerializeSlot(m.validity_end)
                     \o SerializeVecU8(m.data) ]

\* the results of the deserializers: the value and the bytes left, or an error
Parsed(value, rest) == [ok |-> TRUE, value |-> value, rest |-> rest]
ParseError == [ok |-> FALSE, value |-> <<>>, rest |-> <<>>]

Drop(buffer, n) == SubSeq(buffer, n + 1, Len(buffer))

\* the value of the first n bytes of buffer read as a varint
RECURSIVE VarIntValue(_, _)
VarIntValue(buffer, n) ==
    IF n = 0 THEN 0 ELSE (buffer[1] % 128) + 128 * VarIntValue(Tail(buffer), n - 1)

\* U64VarIntDeserializer: the bytes up to the first one without the high bit
VarIntAt(buffer, n) == Parsed(VarIntValue(buffer, n), Drop(buffer, n))

DeserializeVarInt(buffer) ==
    IF \A i \in 1..Len(buffer) : buffer[i] >= 128 THEN ParseError
    ELSE VarIntAt(buffer, CHOOSE i \in 1..Len(buffer) :
                             buffer[i] < 128 /\ \A j \in 1..(i - 1) : buffer[j] >= 128)

\* a variant that leaves the thread byte in the buffer
SlotAfterPeriodKeepThread(p, thread_count) ==
    IF ~p.ok THEN ParseError
    ELSE IF Len(p.rest) = 0 THEN ParseError
    ELSE IF p.rest[1] >= thread_count THEN ParseError
    ELSE Parsed(Slot(p.value, p.rest[1]), p.rest)

\* SlotDeserializer::deserialize, given the period it read
SlotAfterPeriod(p, thread_count) ==
    IF ~p.ok THEN ParseError
    ELSE IF Len(p.rest) = 0 THEN ParseError
    ELSE IF p.rest[1] >= thread_count THEN ParseError
    ELSE Parsed(Slot(p.value, p.rest[1]), Tail(p.rest))

DeserializeSlot(buffer, thread_count) == SlotAfterPeriod(DeserializeVarInt(buffer), thread_count)

\* AmountDeserializer over the whole range of amounts
DeserializeAmount(buffer) == DeserializeVarInt(buffer)

\* AddressDeserializer
DeserializeAddress(buffer) ==
    IF Len(buffer) < AddressLen THEN ParseError
    ELSE IF \A addr \in LAddrs : AddressBytes(addr) /= SubSeq(buffer, 1, AddressLen) THEN ParseError
    ELSE Parsed(CHOOSE addr \in LAddrs : AddressBytes(addr) = SubSeq(buffer, 1, AddressLen),
                Drop(buffer, AddressLen))

\* length_data with a one-byte length: the handler
DeserializeHandler(buffer) ==
    IF Len(buffer) = 0 THEN ParseError
    ELSE IF Len(buffer) - 1 < buffer[1] THEN ParseError
    ELSE Parsed(SubSeq(buffer, 2, buffer[1] + 1), Drop(buffer, buffer[1] + 1))

\* VecU8Deserializer with its maximum length, given the length it read
VecU8AfterLen(l, max) ==
    IF ~l.ok THEN ParseError
    ELSE IF l.value > max THEN ParseError
    ELSE IF Len(l.rest) < l.value THEN ParseError
    ELSE Parsed(SubSeq(l.rest, 1, l.value), Drop(l.rest, l.value))

DeserializeVecU8(buffer, max) == VecU8AfterLen(DeserializeVarInt(buffer), max)

\* the field deserializers of the tuples, by name
DeserializeField(field, buffer, thread_count, max_async_message_data) ==
    IF field = "slot" THEN DeserializeSlot(buffer, thread_count)
    ELSE IF field = "u64" THEN DeserializeVarInt(buffer)
    ELSE IF field = "amount" THEN DeserializeAmount(buffer)
    ELSE IF field = "address" THEN DeserializeAddress(buffer)
    ELSE IF field = "handler" THEN DeserializeHandler(buffer)
    ELSE DeserializeVecU8(buffer, max_async_message_data)

\* nom's tuple: the value of one more field is added to those read so far
FieldRead(acc, p) ==
    IF ~p.ok THEN ParseError ELSE Parsed(Append(acc.value, p.value), p.rest)

RECURSIVE DeserializeTuple(_, _, _, _, _)
DeserializeTuple(acc, fields, i, thread_count, max_async_message_data) ==
    IF ~acc.ok \/ i > Len(fields) THEN acc
    ELSE DeserializeTuple(
            FieldRead(acc, DeserializeField(fields[i], acc.rest, thread_count,
                                            max_async_message_data)),
            fields, i + 1, thread_count, max_async_message_data)

\* AsyncMessageIdDeserializer::deserialize
IdOfTuple(t) ==
    IF ~t.ok THEN ParseError
    ELSE Parsed(<<0 - t.value[1], t.value[2].period, t.value[2].thread, t.value[3]>>, t.rest)

DeserializeId(buffer, thread_count) ==
    IdOfTuple(DeserializeTuple(Parsed(<<>>, buffer), <<"amount", "slot", "u64">>, 1,
                               thread_count, 0))

\* AsyncMessageDeserializer::deserialize
MessageOfTuple(t) ==
    IF ~t.ok THEN ParseError
    ELSE Parsed([ emission_slot |-> t.value[1], emission_index |-> t.value[2],
                  sender |-> t.value[3], destination |-> t.value[4],
                  handler |-> t.value[5], max_gas |-> t.value[6],
                  gas_price |-> t.value[7], coins |-> t.value[8],
                  validity_start |-> t.value[9], validity_end |-> t.value[10],
                  data |-> t.value[11] ],
                t.rest)

DeserializeMessage(buffer, thread_count, max_async_message_data) ==
    MessageOfTuple(
        DeserializeTuple(Parsed(<<>>, buffer),
                         <<"slot", "u64", "address", "address", "handler", "u64", "amount",
                           "amount", "slot", "slot", "data">>,
                         1, thread_count, max_async_message_data))

\* Ord for Vec<u8>: byte by byte, a proper prefix being smaller
BytesLt(x, y) ==
    \/ \E i \in 1..Len(x) :
          /\ i <= Len(y)
          /\ x[i] < y[i]
          /\ \A j \in 1..(i - 1) : x[j] = y[j]
    \/ Len(x) < Len(y) /\ \A j \in 1..Len(x) : x[j] = y[j]

\* a message, and the messages that differ from it by one or two fields
MsgBase ==
    [ emission_slot |-> Slot(1, 0), emission_index |-> 0, sender |-> "A",
      destination |-> "B", handler |-> <<104>>, max_gas |-> 1, gas_price |-> 1,
      coins |-> 1, validity_start |-> Slot(1, 0), validity_end |-> Slot(2, 0),
      data |-> <<>> ]

MsgSamples ==
    { [MsgBase EXCEPT !.max_gas = g[1], !.gas_price = g[2]] :
        g \in { <<1, 1>>, <<2, 1>>, <<1, 2>>, <<300, 0>>, <<5, 5>>, <<6, 6>>, <<7, 6>> } }
    \cup { [MsgBase EXCEPT !.emission_slot = s] :
             s \in { Slot(1, 1), Slot(2, 0), Slot(200, 1), Slot(1, THREAD_COUNT) } }
    \cup { [MsgBase EXCEPT !.emission_index = i, !.coins = MaxAmount] : i \in {1, 128, 20000} }
    \cup { [MsgBase EXCEPT !.handler = [i \in 1..n |-> 97], !.sender = "S"] : n \in {0, 255, 256} }
    \cup { [MsgBase EXCEPT !.data = [i \in 1..n |-> 200 + i], !.validity_end = Slot(300, 1)] :
             n \in {1, MAX_ASYNC_MESSAGE_DATA, MAX_ASYNC_MESSAGE_DATA + 1} }
    \cup { [MsgBase EXCEPT !.validity_start = Slot(0, THREAD_COUNT)] }

MsgRunNew ==
    [ pc |-> "start",
      ids |-> <<>>,          \* the identifiers of the two messages
      id_bytes |-> <<>>,     \* their serialized forms
      id_back |-> <<>>,      \* what the serialized forms deserialize to
      bytes |-> None,        \* the serialized form of the first message
      back |-> None,         \* what it deserializes to
      again |-> None ]       \* the serialized form of the deserialized message

InitMsg ==
    /\ IdleLedger /\ IdleLoad /\ IdleExec
    /\ \E a \in MsgSamples : \E b \in MsgSamples : ctx = [a |-> a, b |-> b]
    /\ run = MsgRunNew

MsgStep(from, to, field, value) ==
    /\ run.pc = from
    /\ run' = [run EXCEPT !.pc = to, ![field] = value]
    /\ UNCHANGED <<ctx, ledgerVars, loadVars, execVars>>

MsgComputeId == MsgStep("start", "ids", "ids", <<compute_id(ctx.a), compute_id(ctx.b)>>)

MsgSerializeId ==
    MsgStep("ids", "id_bytes", "id_bytes", <<SerializeId(run.ids[1]), SerializeId(run.ids[2])>>)

MsgDeserializeId ==
    MsgStep("id_bytes", "id_back", "id_back",
            << DeserializeId(run.id_bytes[1], THREAD_COUNT),
               DeserializeId(run.id_bytes[2], THREAD_COUNT) >>)

MsgSerialize == MsgStep("id_back", "bytes", "bytes", Some(SerializeMessage(ctx.a)))

\* the bytes are deserialized, when there are bytes
MsgDeserialize ==
    /\ run.pc = "bytes"
    /\ Unwrap(run.bytes).ok
    /\ MsgStep("bytes", "back", "back",
               Some(DeserializeMessage(Unwrap(run.bytes).bytes, THREAD_COUNT,
                                       MAX_ASYNC_MESSAGE_DATA)))

\* the deserialized message is serialized, when there is one
MsgReserialize ==
    /\ run.pc = "back"
    /\ Unwrap(run.back).ok
    /\ MsgStep("back", "again", "again", Some(SerializeMessage(Unwrap(run.back).value)))

NextMsg ==
    \/ MsgComputeId
    \/ MsgSerializeId
    \/ MsgDeserializeId
    \/ MsgSerialize
    \/ MsgDeserialize
    \/ MsgReserialize

SpecMsg == InitMsg /\ [][NextMsg]_vars

\* ==================================================== ledger streaming
\* massa-ledger-worker/src/ledger_db.rs, get_ledger_part

\* keys of the ledger column family, as bytes; RocksDB iterates them in
\* ascending byte order
PartKeys == { <<1>>, <<1, 0>>, <<1, 0, 3>>, <<2>> }

\* values of the ledger column family
PartValues == { <<>>, <<7>>, <<7, 8>> }

\* largest ledger_part_size_message_bytes of the model
MaxPartSize == 8

\* StreamingStep<Vec<u8>>
Started == [step |-> "Started", key |-> None]
Ongoing(key) == [step |-> "Ongoing", key |-> Some(key)]
Finished == [step |-> "Finished", key |-> None]

\* one record of a part: KeySerializer then VecU8Serializer
SerializeRecord(key, value) == SerializeVecU8(key) \o SerializeVecU8(value)

\* the keys of a set in ascending byte order
RECURSIVE SortedKeys(_)
SortedKeys(keys) ==
    IF keys = {} THEN <<>>
    ELSE SortedKeys({k \in keys : \E j \in keys : BytesLt(k, j)})
         \o <<CHOOSE k \in keys : \A j \in keys : ~BytesLt(k, j)>>

\* IteratorMode::Start and IteratorMode::From(key, Direction::Forward)
IteratorStart(db) == SortedKeys({k \in PartKeys : IsSome(db[k])})
IteratorFrom(db, key) == SortedKeys({k \in PartKeys : IsSome(db[k]) /\ ~BytesLt(k, key)})

\* iter.next()
IteratorNext(iter) == IF iter = <<>> THEN <<>> ELSE Tail(iter)

\* a variant of the test of the loop that also takes a record when the part
\* has exactly the configured length
PartHasRoomInclusive(ledger_part, size) == Len(ledger_part) <= size

\* the test of the loop: the part is extended while it is shorter than
\* ledger_part_size_message_bytes
PartHasRoom(ledger_part, size) == Len(ledger_part) < size

\* the result of get_ledger_part: the bytes, the cursor, and the records that
\* were serialized into the bytes
PartResult(ledger_part, cursor, records) ==
    [ledger_part |-> ledger_part, cursor |-> cursor, records |-> records]

\* the loop over the iterator
RECURSIVE PartLoop(_, _, _, _)
PartLoop(db, iter, size, r) ==
    IF iter = <<>> THEN r
    ELSE IF PartHasRoom(r.ledger_part, size)
         THEN PartLoop(db, Tail(iter), size,
                       PartResult(r.ledger_part \o SerializeRecord(Head(iter), Unwrap(db[Head(iter)])),
                                  Ongoing(Head(iter)),
                                  Append(r.records, <<Head(iter), Unwrap(db[Head(iter)])>>)))
         ELSE r

get_ledger_part(db, size, cursor) ==
    IF cursor.step = "Finished" THEN PartResult(<<>>, cursor, <<>>)
    ELSE IF cursor.step = "Started"
         THEN PartLoop(db, IteratorStart(db), size, PartResult(<<>>, Started, <<>>))
         ELSE PartLoop(db, IteratorNext(IteratorFrom(db, Unwrap(cursor.key))), size,
                       PartResult(<<>>, Finished, <<>>))

\* the state of a stream: the cursor to pass next, the result of the last
\* call with the cursor it was given, and the records delivered so far
PartRunNew ==
    [ pc |-> "stream", cursor |-> Started, given |-> None, last |-> None,
      delivered |-> <<>>, after_finished |-> FALSE ]

InitPart ==
    /\ IdleLedger /\ IdleLoad /\ IdleExec
    /\ \E db \in [PartKeys -> {None} \cup {Some(v) : v \in PartValues}] :
       \E size \in 1..MaxPartSize :
           ctx = [db |-> db, size |-> size]
    /\ run = PartRunNew

PartCalled(r) ==
    /\ run' = [run EXCEPT !.cursor = r.cursor,
                          !.given = Some(run.cursor),
                          !.last = Some(r),
                          !.delivered = @ \o r.records,
                          !.after_finished = run.cursor = Finished]
    /\ UNCHANGED <<ctx, ledgerVars, loadVars, execVars>>

\* a call with the cursor the previous call returned
PartGet ==
    /\ run.cursor /= Finished
    /\ PartCalled(get_ledger_part(ctx.db, ctx.size, run.cursor))

\* a call with the cursor Finished
PartGetFinished ==
    /\ run.cursor = Finished
    /\ ~run.after_finished
    /\ PartCalled(get_ledger_part(ctx.db, ctx.size, run.cursor))

NextPart ==
    \/ PartGet
    \/ PartGetFinished

SpecPart == InitPart /\ [][NextPart]_vars

\* the streams of the ledgers whose records hold the same value, with the
\* smallest, a middle and the largest part size
InitPartFair ==
    /\ IdleLedger /\ IdleLoad /\ IdleExec
    /\ \E db \in [PartKeys -> {None, Some(CHOOSE v \in PartValues : TRUE)}] :
       \E size \in {1, 3, MaxPartSize} :
           ctx = [db |-> db, size |-> size]
    /\ run = PartRunNew

\* the stream whose caller keeps calling while the cursor is not Finished
SpecPartFair == InitPartFair /\ [][NextPart]_vars /\ WF_vars(PartGet)

\* ======================================================== final ledger
\* massa-ledger/src/ledger.rs

\* highest period at which the model settles the final ledger
MaxSettledPeriod == 3

\* largest final_history_length of the model
MaxHistoryLength == 3

\* the balances of the model
JournalBalances == 0..1

\* LedgerChanges over one address: no change, or SetUpdateOrDelete
JournalChanges ==
    {None, Some(<<"Delete", 0>>)}
        \cup {Some(<<"Set", b>>) : b \in JournalBalances}
        \cup {Some(<<"Update", b>>) : b \in JournalBalances}

\* Applicable<LedgerChanges> for FinalLedger, on the entry of the address:
\* Set overwrites, Update applies to the entry or to a default one, Delete
\* removes
FinalLedgerApply(entry, changes) ==
    IF changes = None THEN entry
    ELSE IF Unwrap(changes)[1] = "Delete" THEN None
    ELSE Some(Unwrap(changes)[2])

\* FinalLedger::new with an initial ledger and a final_history_length
FinalLedgerNew(entry, final_history_length) ==
    [ final_history_length |-> final_history_length,
      slot |-> GenesisSlot,
      sorted_ledger |-> entry,
      changes_history |-> <<>> ]

\* the while loop of settle_slot: pop_front while the history is longer than
\* final_history_length
RECURSIVE PruneHistory(_, _)
PruneHistory(changes_history, final_history_length) ==
    IF Len(changes_history) > final_history_length
    THEN PruneHistory(Tail(changes_history), final_history_length)
    ELSE changes_history

\* a variant that prunes from the back
PruneHistoryBack(changes_history, final_history_length) ==
    IF Len(changes_history) > final_history_length
    THEN SubSeq(changes_history, 1, final_history_length)
    ELSE changes_history

\* a variant of settle_slot that pops the newest entries
FinalLedgerSettleSlotPopBack(fl, slot, changes) ==
    [ fl EXCEPT !.sorted_ledger = FinalLedgerApply(@, changes),
                !.slot = slot,
                !.changes_history = PruneHistoryBack(Append(@, <<slot, changes>>), fl.final_history_length) ]

\* FinalLedger::settle_slot
FinalLedgerSettleSlot(fl, slot, changes) ==
    [ fl EXCEPT !.sorted_ledger = FinalLedgerApply(@, changes),
                !.slot = slot,
                !.changes_history = PruneHistory(Append(@, <<slot, changes>>), fl.final_history_length) ]

\* every (slot, changes) pair that was settled, in settlement order, and the
\* history before the last settle_slot
JournalRunNew == [pc |-> "settling", settled |-> <<>>, before |-> <<>>]

InitJournal ==
    /\ IdleLedger /\ IdleLoad /\ IdleExec
    /\ \E entry \in {None} \cup {Some(b) : b \in JournalBalances} :
       \E k \in 0..MaxHistoryLength :
           ctx = FinalLedgerNew(entry, k)
    /\ run = JournalRunNew

\* settle_slot for the slot after the one the ledger is attached to
JournalSettle ==
    /\ ctx.slot.period < MaxSettledPeriod \/ ctx.slot.thread + 1 < THREAD_COUNT
    /\ \E changes \in JournalChanges :
          /\ ctx' = FinalLedgerSettleSlot(ctx, get_next_slot(ctx.slot), changes)
          /\ run' = [run EXCEPT !.settled = Append(@, <<get_next_slot(ctx.slot), changes>>),
                                !.before = ctx.changes_history]
    /\ UNCHANGED <<ledgerVars, loadVars, execVars>>

NextJournal == JournalSettle

SpecJournal == InitJournal /\ [][NextJournal]_vars

\* ====================================================== pool controller
\* massa-pool-worker/src/controller_impl.rs, worker.rs

\* PoolConfig::channels_size
CHANNELS_SIZE == 2

\* number of calls of the controller the model makes
MaxPoolCalls == 4

\* sync_channel(config.channels_size) with the thread that receives from it:
\* the commands in the buffer, and whether the receiver still exists
ChannelNew == [queue |-> <<>>, receiver |-> TRUE]

\* what try_send did: the channel after it, its result, and whether it
\* returned
Sent(channel, result, returns) == [channel |-> channel, result |-> result, returns |-> returns]

\* a variant that waits for room in the buffer, as SyncSender::send does
try_send_blocking(channel, command) ==
    IF ~channel.receiver THEN Sent(channel, "Disconnected", TRUE)
    ELSE Sent([channel EXCEPT !.queue = Append(@, command)], "Ok", Len(channel.queue) < CHANNELS_SIZE)

\* SyncSender::try_send
try_send(channel, command) ==
    IF ~channel.receiver THEN Sent(channel, "Disconnected", TRUE)
    ELSE IF Len(channel.queue) >= CHANNELS_SIZE THEN Sent(channel, "Full", TRUE)
    ELSE Sent([channel EXCEPT !.queue = Append(@, command)], "Ok", TRUE)

\* start_pool_controller: the two channels, the two threads receiving, and
\* the manager that has not stopped them
PoolNew ==
    [ operations |-> ChannelNew, endorsements |-> ChannelNew, manager |-> "started" ]

\* the caller of the controller: where it is in its call, the number of
\* calls it made, the warnings logged, and the last try_send with the channel
\* before it
PoolRunNew ==
    [ pc |-> "idle", calls |-> 0, warnings |-> 0, last |-> None, handled |-> 0 ]

InitPool ==
    /\ IdleLedger /\ IdleLoad /\ IdleExec
    /\ ctx = PoolNew
    /\ run = PoolRunNew

\* one match on the result of try_send: a warning unless the result is Ok
PoolTrySend(name, command, from, to, sent) ==
    /\ run.pc = from
    /\ sent.returns
    /\ ctx' = [ctx EXCEPT ![name] = sent.channel]
    /\ run' = [run EXCEPT !.pc = to,
                          !.calls = IF from = "idle" THEN @ + 1 ELSE @,
                          !.warnings = IF sent.result = "Ok" THEN @ ELSE @ + 1,
                          !.last = Some([name |-> name, command |-> command, before |-> ctx[name],
                                         after |-> sent.channel, result |-> sent.result,
                                         warned |-> sent.result /= "Ok"])]
    /\ UNCHANGED <<ledgerVars, loadVars, execVars>>

add_operations ==
    /\ run.calls < MaxPoolCalls
    /\ PoolTrySend("operations", "AddItems", "idle", "idle", try_send(ctx.operations, "AddItems"))

add_endorsements ==
    /\ run.calls < MaxPoolCalls
    /\ PoolTrySend("endorsements", "AddItems", "idle", "idle", try_send(ctx.endorsements, "AddItems"))

\* notify_final_cs_periods: the operation pool first, then the endorsement pool
notify_final_cs_periods_operations ==
    /\ run.calls < MaxPoolCalls
    /\ PoolTrySend("operations", "NotifyFinalCsPeriods", "idle", "notify",
                   try_send(ctx.operations, "NotifyFinalCsPeriods"))

notify_final_cs_periods_endorsements ==
    PoolTrySend("endorsements", "NotifyFinalCsPeriods", "notify", "idle",
                try_send(ctx.endorsements, "NotifyFinalCsPeriods"))

\* one turn of the loop of a pool thread: recv, then the command; Stop ends
\* the thread, which drops the receiver
PoolThreadRun(name) ==
    /\ ctx[name].receiver
    /\ ctx[name].queue /= <<>>
    /\ ctx' = [ctx EXCEPT ![name] = IF Head(ctx[name].queue) = "Stop"
                                    THEN [queue |-> <<>>, receiver |-> FALSE]
                                    ELSE [@ EXCEPT !.queue = Tail(@)]]
    /\ run' = [run EXCEPT !.handled = IF Head(ctx[name].queue) = "Stop" THEN @ ELSE (@ + 1) % 2]
    /\ UNCHANGED <<ledgerVars, loadVars, execVars>>

OperationPoolThreadRun == PoolThreadRun("operations")
EndorsementPoolThreadRun == PoolThreadRun("endorsements")

\* PoolManagerImpl::stop: a blocking send of Stop on each channel
PoolManagerSend(name, from, to) ==
    /\ ctx.manager = from
    /\ ~ctx[name].receiver \/ Len(ctx[name].queue) < CHANNELS_SIZE
    /\ ctx' = [ctx EXCEPT !.manager = to,
                          ![name] = IF ctx[name].receiver
                                    THEN [@ EXCEPT !.queue = Append(@, "Stop")] ELSE @]
    /\ UNCHANGED <<run, ledgerVars, loadVars, execVars>>

PoolManagerStopOperations == PoolManagerSend("operations", "started", "stopping")
PoolManagerStopEndorsements == PoolManagerSend("endorsements", "stopping", "stopped")

NextPool ==
    \/ add_operations
    \/ add_endorsements
    \/ notify_final_cs_periods_operations
    \/ notify_final_cs_periods_endorsements
    \/ OperationPoolThreadRun
    \/ EndorsementPoolThreadRun
    \/ PoolManagerStopOperations
    \/ PoolManagerStopEndorsements

SpecPool == InitPool /\ [][NextPool]_vars

\* =========================================== readers of the final state
\* massa-execution-worker/src/execution.rs, apply_final_execution_output:
\* final_state.write().finalize(slot, state_changes)

\* RwLock<FinalState>: whether a writer holds it, and the number of readers
RwLockNew == [writer |-> FALSE, readers |-> 0]

\* a variant of read() that does not wait for the writer
CanReadAnyTime(lock) == TRUE

\* read() returns when no writer holds the lock
CanRead(lock) == ~lock.writer

\* write() returns when nobody holds the lock
CanWrite(lock) == ~lock.writer /\ lock.readers = 0

\* what a reader can read of the final state
FinalStateRead(fs) == [slot |-> fs.slot, content |-> fs.ledger.db, hash |-> fs.ledger.hash]

\* the final state behind its lock, the finalize in progress, and the state
\* as it was when the lock was last free of writers
SharedFinalStateNew ==
    [ final_state |-> [slot |-> InitialFinalState.slot, ledger |-> InitialFinalState.ledger],
      lock |-> RwLockNew,
      finalizing |-> None,
      committed |-> FinalStateRead(InitialFinalState) ]

\* the reader: where it is, and what it read
ReaderNew == [pc |-> "idle", slot |-> None, content |-> None, hash |-> None, reads |-> 0]

InitFinal ==
    /\ IdleLedger /\ IdleLoad /\ IdleExec
    /\ ctx = SharedFinalStateNew
    /\ run = ReaderNew

\* final_state.write() for the slot after the final one
FinalizeLock ==
    /\ CanWrite(ctx.lock)
    /\ ctx.finalizing = None
    /\ get_next_slot(ctx.final_state.slot) \in Slots
    /\ \E changes \in LedgerChangeMaps :
          ctx' = [ctx EXCEPT !.lock.writer = TRUE,
                             !.finalizing = Some([slot |-> get_next_slot(ctx.final_state.slot),
                                                  changes |-> changes, ledger_done |-> FALSE])]
    /\ UNCHANGED <<run, ledgerVars, loadVars, execVars>>

\* finalize: the ledger first, in one write batch
FinalizeLedger ==
    /\ IsSome(ctx.finalizing)
    /\ ~Unwrap(ctx.finalizing).ledger_done
    /\ ctx' = [ctx EXCEPT !.final_state.ledger = apply_changes(@, Unwrap(ctx.finalizing).changes,
                                                               Unwrap(ctx.finalizing).slot),
                          !.finalizing = Some([Unwrap(ctx.finalizing) EXCEPT !.ledger_done = TRUE])]
    /\ UNCHANGED <<run, ledgerVars, loadVars, execVars>>

\* finalize: the slot of the final state last, then the write guard is dropped
FinalizeUnlock ==
    /\ IsSome(ctx.finalizing)
    /\ Unwrap(ctx.finalizing).ledger_done
    /\ ctx' = [ctx EXCEPT !.final_state.slot = Unwrap(ctx.finalizing).slot,
                          !.lock.writer = FALSE,
                          !.finalizing = None,
                          !.committed = [FinalStateRead(ctx.final_state)
                                            EXCEPT !.slot = Unwrap(ctx.finalizing).slot]]
    /\ UNCHANGED <<run, ledgerVars, loadVars, execVars>>

ReaderStep(from, to, field, value) ==
    /\ run.pc = from
    /\ run' = [run EXCEPT !.pc = to, ![field] = value]
    /\ UNCHANGED <<ctx, ledgerVars, loadVars, execVars>>

\* final_state.read()
ReadLock ==
    /\ run.pc = "idle"
    /\ run.reads < 2
    /\ CanRead(ctx.lock)
    /\ ctx' = [ctx EXCEPT !.lock.readers = @ + 1]
    /\ run' = [ReaderNew EXCEPT !.pc = "locked", !.reads = run.reads + 1]
    /\ UNCHANGED <<ledgerVars, loadVars, execVars>>

ReadSlot == ReaderStep("locked", "slot", "slot", Some(ctx.final_state.slot))
ReadContent == ReaderStep("slot", "content", "content", Some(ctx.final_state.ledger.db))
ReadHash == ReaderStep("content", "hash", "hash", Some(ctx.final_state.ledger.hash))

\* the read guard is dropped
ReadUnlock ==
    /\ run.pc = "hash"
    /\ ctx' = [ctx EXCEPT !.lock.readers = @ - 1]
    /\ run' = [run EXCEPT !.pc = "idle"]
    /\ UNCHANGED <<ledgerVars, loadVars, execVars>>

NextFinal ==
    \/ FinalizeLock
    \/ FinalizeLedger
    \/ FinalizeUnlock
    \/ ReadLock
    \/ ReadSlot
    \/ ReadContent
    \/ ReadHash
    \/ ReadUnlock

SpecFinal == InitFinal /\ [][NextFinal]_vars

\* ==================================================== active rolls of a cycle
\* massa-execution-worker/src/execution.rs, get_cycle_active_rolls

\* highest cycle of the model
MaxCycle == 5

\* cycle_history_length of the model
CycleHistoryLength == 4

\* the roll counts of the model: the number of rolls of one address
RollCountMaps == 0..2

\* PoSFinalState: the rolls at genesis and the cycles it keeps, oldest first
PoSFinalStateNew(initial_rolls) ==
    [ initial_rolls |-> initial_rolls,
      cycle_history |-> <<[cycle |-> 0, roll_counts |-> initial_rolls]>> ]

\* PoSFinalState::get_cycle_index: the position of the cycle in the history
get_cycle_index(pos_state, cycle) ==
    IF pos_state.cycle_history = <<>> THEN None
    ELSE IF cycle < pos_state.cycle_history[1].cycle THEN None
    ELSE IF cycle - pos_state.cycle_history[1].cycle >= Len(pos_state.cycle_history) THEN None
    ELSE Some(cycle - pos_state.cycle_history[1].cycle)

\* cycle.checked_sub(3)
lookback_cycle(cycle) == IF cycle >= 3 THEN Some(cycle - 3) ELSE None

\* the index the history is read at: the index of the lookback cycle, or
\* Default::default() when the history does not hold it
lookback_cycle_index(pos_state, lookback) ==
    IF IsSome(get_cycle_index(pos_state, lookback)) THEN Unwrap(get_cycle_index(pos_state, lookback))
    ELSE 0

\* get_cycle_active_rolls: Returned(rolls), or a panic when the index is out
\* of the bounds of the history
Returned(v) == [panic |-> FALSE, value |-> v]
Panicked == [panic |-> TRUE, value |-> 0]

ActiveRollsAt(pos_state, index) ==
    IF index >= Len(pos_state.cycle_history) THEN Panicked
    ELSE Returned(pos_state.cycle_history[index + 1].roll_counts)

get_cycle_active_rolls(pos_state, cycle) ==
    IF IsSome(lookback_cycle(cycle))
    THEN ActiveRollsAt(pos_state, lookback_cycle_index(pos_state, Unwrap(lookback_cycle(cycle))))
    ELSE Returned(pos_state.initial_rolls)

\* the roll counts recorded for every cycle so far, and the request made
\* since they last changed
RollsRunNew(initial_rolls) ==
    [ pc |-> "run", recorded |-> <<initial_rolls>>, asked |-> None, result |-> None ]

InitRolls ==
    /\ IdleLedger /\ IdleLoad /\ IdleExec
    /\ \E initial_rolls \in RollCountMaps :
          /\ ctx = PoSFinalStateNew(initial_rolls)
          /\ run = RollsRunNew(initial_rolls)

\* a new cycle enters the history, the oldest leaves it when the history is
\* longer than cycle_history_length
RollsNewCycle ==
    /\ Len(run.recorded) <= MaxCycle
    /\ \E roll_counts \in RollCountMaps :
          /\ ctx' = [ctx EXCEPT !.cycle_history =
                        IF Len(@) >= CycleHistoryLength
                        THEN Append(Tail(@), [cycle |-> Len(run.recorded), roll_counts |-> roll_counts])
                        ELSE Append(@, [cycle |-> Len(run.recorded), roll_counts |-> roll_counts])]
          /\ run' = [run EXCEPT !.recorded = Append(@, roll_counts), !.asked = None, !.result = None]
    /\ UNCHANGED <<ledgerVars, loadVars, execVars>>

\* the roll counts recorded for the current cycle change
RollsChange ==
    /\ \E roll_counts \in RollCountMaps :
          /\ ctx' = [ctx EXCEPT !.cycle_history[Len(ctx.cycle_history)].roll_counts = roll_counts]
          /\ run' = [run EXCEPT !.recorded[Len(run.recorded)] = roll_counts, !.asked = None, !.result = None]
    /\ UNCHANGED <<ledgerVars, loadVars, execVars>>

RollsAsk ==
    /\ \E cycle \in 0..(MaxCycle + 3) :
          run' = [run EXCEPT !.asked = Some(cycle),
                             !.result = Some(get_cycle_active_rolls(ctx, cycle))]
    /\ UNCHANGED <<ctx, ledgerVars, loadVars, execVars>>

NextRolls ==
    \/ RollsNewCycle
    \/ RollsChange
    \/ RollsAsk

SpecRolls == InitRolls /\ [][NextRolls]_vars

\* ================================================ roll sales and deferred credits
\* massa-execution-worker/src/execution.rs, execute_roll_sell_op
\* massa-execution-worker/src/context.rs, try_sell_rolls, execute_deferred_credits

\* periods_per_cycle of the model
SellPeriodsPerCycle == 1

\* highest period at which the model settles a slot
MaxSellPeriod == 5

\* largest roll count of the model
MaxRolls == 3

\* Slot::get_cycle and Slot::new_last_of_cycle
SlotCycle(slot) == slot.period \div SellPeriodsPerCycle
LastSlotOfCycle(cycle) == Slot((cycle + 1) * SellPeriodsPerCycle - 1, THREAD_COUNT - 1)

\* the slot at which the coins of a roll sold at slot are credited: the last
\* slot of the third cycle after the cycle of the sale
DeferredCreditSlot(slot) == LastSlotOfCycle(SlotCycle(slot) + 3)

\* the slots deferred credits can be recorded for
SellSlots == { Slot(p, t) : p \in 0..(MaxSellPeriod + 3 * SellPeriodsPerCycle + 1), t \in 0..(THREAD_COUNT - 1) }

\* the context of the seller: the slot, its balance, its roll count and the
\* deferred credits recorded for it
SellContextNew(balance, rolls) ==
    [ slot |-> Slot(1, 0), balance |-> balance, roll_count |-> rolls,
      deferred_credits |-> [s \in SellSlots |-> 0] ]

\* ExecutionContext::try_sell_rolls: an error when the address owns fewer rolls
try_sell_rolls(c, roll_count) ==
    IF c.roll_count < roll_count THEN Err(c)
    ELSE Ok([c EXCEPT !.roll_count = @ - roll_count,
                      !.deferred_credits[DeferredCreditSlot(c.slot)] = @ + roll_count * ROLL_PRICE])

\* execute_roll_sell_op
execute_roll_sell_op(c, roll_count) == try_sell_rolls(c, roll_count)

\* execute_deferred_credits: transfer_coins(None, Some(addr), amount, false),
\* whose error is only logged; the credit fails when the balance overflows
execute_deferred_credits(c, slot) ==
    IF c.deferred_credits[slot] = 0 THEN c
    ELSE IF c.balance + c.deferred_credits[slot] > MaxAmount THEN c
    ELSE [c EXCEPT !.balance = @ + c.deferred_credits[slot]]

\* what the last step was, with the context before it
SellRunNew == [pc |-> "slot", last |-> "None", before |-> None, sold |-> 0, ok |-> TRUE]

InitSell ==
    /\ IdleLedger /\ IdleLoad /\ IdleExec
    /\ \E balance \in {0, 5, MaxAmount - ROLL_PRICE, MaxAmount} : \E rolls \in 0..MaxRolls :
          ctx = SellContextNew(balance, rolls)
    /\ run = SellRunNew

\* a RollSell operation of the seller in the block of the slot
SellRolls ==
    /\ run.pc = "slot"
    /\ \E roll_count \in 1..MaxRolls :
          /\ ctx' = execute_roll_sell_op(ctx, roll_count).c
          /\ run' = [run EXCEPT !.last = "Sell", !.before = Some(ctx), !.sold = roll_count,
                                !.ok = execute_roll_sell_op(ctx, roll_count).ok]
    /\ UNCHANGED <<ledgerVars, loadVars, execVars>>

\* a transfer received by the seller
SellReceive ==
    /\ run.pc = "slot"
    /\ ctx.balance < MaxAmount
    /\ ctx' = [ctx EXCEPT !.balance = MaxAmount]
    /\ run' = [run EXCEPT !.last = "Receive", !.before = Some(ctx), !.sold = 0, !.ok = TRUE]
    /\ UNCHANGED <<ledgerVars, loadVars, execVars>>

\* settle_slot: the deferred credits of the slot, then the next slot begins
SellSettleSlot ==
    /\ run.pc = "slot"
    /\ ctx.slot.period <= MaxSellPeriod
    /\ ctx' = [execute_deferred_credits(ctx, ctx.slot) EXCEPT !.slot = get_next_slot(ctx.slot)]
    /\ run' = [run EXCEPT !.last = "Settle", !.before = Some(ctx), !.sold = 0, !.ok = TRUE]
    /\ UNCHANGED <<ledgerVars, loadVars, execVars>>

NextSell ==
    \/ SellRolls
    \/ SellReceive
    \/ SellSettleSlot

SpecSell == InitSell /\ [][NextSell]_vars

\* ============================================== life of a ledger entry
\* massa-ledger-worker/src/ledger_db.rs, put_entry, update_entry, delete_entry

\* the address the entry is put for
EntryAddr == LAddrOrder[1]

\* the keys of the sub-entries of an address
EntryKeys(addr) == {balance_key(addr), bytecode_key(addr)} \cup { data_key(addr, k) : k \in DataKeys }

\* the ledgers the entry is put into: a new database, and a database that
\* holds an entry for another address
EntryLedgers ==
    { LedgerDBNew,
      load_initial_ledger(LedgerDBNew,
          << <<LAddrOrder[2], [balance |-> MaxVal, bytecode |-> EmptyBytecode,
                               datastore |-> [k \in DataKeys |-> Some(MaxVal)]]>> >>) }

\* whether the batch holds a write for a sub-entry of the address
BatchTouches(batch, addr) == \E key \in EntryKeys(addr) : batch.write_batch[key] /= None

\* the database, the batch being filled, and the database as it was before
\* the put
EntryRunNew(ldb) == [pc |-> "start", before |-> ldb, same_batch |-> FALSE]

InitEntry ==
    /\ IdleLedger /\ IdleLoad /\ IdleExec
    /\ \E ldb \in EntryLedgers :
          /\ ctx = [db |-> ldb, batch |-> LedgerBatchNew(get_ledger_hash(ldb))]
          /\ run = EntryRunNew(ldb)

EntryStep(from, to, batch) ==
    /\ run.pc = from
    /\ ctx' = [ctx EXCEPT !.batch = batch]
    /\ run' = [run EXCEPT !.pc = to,
                          !.same_batch = run.same_batch \/ (from = "put" /\ BatchTouches(ctx.batch, EntryAddr))]
    /\ UNCHANGED <<ledgerVars, loadVars, execVars>>

\* put_entry for the address, which the ledger does not hold
EntryPut ==
    \E ledger_entry \in LedgerEntries :
        EntryStep("start", "put", put_entry(ctx.db, ctx.batch, EntryAddr, ledger_entry))

\* update_entry, in the batch of the put or in a later one
EntryUpdate ==
    \E entry_update \in LedgerEntryUpdates :
        EntryStep("put", "updated", update_entry(ctx.db, ctx.batch, EntryAddr, entry_update))

\* delete_entry, in a batch that holds no write for the address
EntryDelete ==
    /\ ~BatchTouches(ctx.batch, EntryAddr)
    /\ EntryStep("updated", "deleted", delete_entry(ctx.db, ctx.batch, EntryAddr))

\* write_batch, and a new batch on the hash of the database
EntryWrite ==
    /\ run.pc \in {"put", "updated", "deleted"}
    /\ BatchTouches(ctx.batch, EntryAddr)
    /\ ctx' = [db |-> write_batch(ctx.db, ctx.batch),
               batch |-> LedgerBatchNew(get_ledger_hash(write_batch(ctx.db, ctx.batch)))]
    /\ run' = [run EXCEPT !.pc = IF run.pc = "deleted" THEN "done" ELSE run.pc]
    /\ UNCHANGED <<ledgerVars, loadVars, execVars>>

NextEntry ==
    \/ EntryPut
    \/ EntryUpdate
    \/ EntryDelete
    \/ EntryWrite

SpecEntry == InitEntry /\ [][NextEntry]_vars

\* ============================================ execute_operation, one call
\* massa-execution-worker/src/execution.rs, execute_operation

\* calls of execute_operation on one context
MaxOpCalls == 2

\* the slots of the blocks the operations are included in
OpSlots == {Slot(1, 0), Slot(1, 1), Slot(2, 0)}

\* the final states: the sender A with and without the coins of the fees
OpFinalStates ==
    { [ InitialFinalState EXCEPT
          !.ledger = load_initial_ledger(LedgerDBNew,
                        << <<"A", [balance |-> a, bytecode |-> EmptyBytecode,
                                   datastore |-> EmptyDatastore]>>,
                           <<"B", [balance |-> 1, bytecode |-> EmptyBytecode,
                                   datastore |-> EmptyDatastore]>> >>) ]
      : a \in {0, 10} }

\* the block slot, the gas left and the credits of the block, and what the
\* last call was given and returned
OpRunNew(slot, gas) ==
    [ block_slot |-> slot,
      remaining_block_gas |-> gas,
      block_credits |-> BLOCK_REWARD,
      calls |-> 0,
      operation |-> None,
      result |-> "None",
      before |-> None,
      gas_before |-> gas,
      credits_before |-> BLOCK_REWARD ]

InitOp ==
    /\ IdleLedger /\ IdleLoad /\ IdleExec
    /\ \E fs \in OpFinalStates : \E slot \in OpSlots : \E gas \in {0, MAX_GAS_PER_BLOCK} :
          /\ ctx = active_slot(slot, Some(<<"X", slot.period, slot.thread>>), fs, <<>>)
          /\ run = OpRunNew(slot, gas)

\* the step of the call that returned b
OpReturned(operation, b) ==
    /\ ctx' = b.c
    /\ run' = [run EXCEPT !.calls = @ + 1,
                          !.operation = Some(operation),
                          !.result = b.result,
                          !.before = Some(ctx),
                          !.gas_before = run.remaining_block_gas,
                          !.credits_before = run.block_credits,
                          !.remaining_block_gas = b.remaining_block_gas,
                          !.block_credits = b.block_credits]

\* execute_operation(operation, block_slot, &mut remaining_block_gas, &mut block_credits)
OpExecute ==
    /\ run.calls < MaxOpCalls
    /\ \E id \in OpIds :
          OpReturned(Operations[id],
                     execute_operation(ctx, Operations[id], run.block_slot,
                                       run.remaining_block_gas, run.block_credits))
    /\ UNCHANGED <<ledgerVars, loadVars, execVars>>

NextOp == OpExecute

SpecOp == InitOp /\ [][NextOp]_vars

\* ===================================================== the block factory
\* massa-factory-worker/src/block_factory.rs, get_next_slot and run

\* the values of the system clock, in slot durations (t0 / thread_count)
MaxTime == 7
Times == 0..MaxTime
\* genesis_timestamp and initial_delay, in slot durations
FactoryGenesis == 2
FactoryInitialDelay == 1
\* slots the loop processes at most
MaxProcessed == 3

\* timeslots::get_closest_slot_to_timestamp: the slot whose timestamp is
\* the closest to the timestamp, the first slot before genesis
get_closest_slot_to_timestamp(timestamp) ==
    IF timestamp <= FactoryGenesis THEN Slot(0, 0)
    ELSE Slot((timestamp - FactoryGenesis) \div THREAD_COUNT,
              (timestamp - FactoryGenesis) % THREAD_COUNT)

\* ignore genesis
IgnoreGenesis(next_slot) ==
    IF next_slot.period = 0 THEN Slot(1, next_slot.thread) ELSE next_slot

\* a variant of get_next_slot without the protection against clock adjustments
AfterPreviousUnprotected(next_slot, previous_slot) == next_slot

\* protection against double-production on unexpected system clock adjustment
AfterPrevious(next_slot, previous_slot) ==
    IF IsSome(previous_slot) /\ SlotLe(next_slot, Unwrap(previous_slot))
    THEN get_next_slot(Unwrap(previous_slot))
    ELSE next_slot

\* BlockFactoryWorker::get_next_slot, the clock returning now
factory_get_next_slot(previous_slot, now) ==
    AfterPrevious(
        IgnoreGenesis(get_closest_slot_to_timestamp(
            IF previous_slot = None THEN now + FactoryInitialDelay ELSE now)),
        previous_slot)

\* the loop of run: prev_slot and the slots handed to process_slot
FactoryNew == [prev_slot |-> None, processed |-> <<>>]

\* the position in the loop, the slot waited for, the last value of the clock
FactoryRunNew == [pc |-> "next", slot |-> None, now |-> None, went_back |-> FALSE]

InitFactory ==
    /\ IdleLedger /\ IdleLoad /\ IdleExec
    /\ ctx = FactoryNew
    /\ run = FactoryRunNew

\* let (slot, block_instant) = self.get_next_slot(prev_slot)
FactoryGetNextSlot ==
    /\ run.pc = "next"
    /\ Len(ctx.processed) < MaxProcessed
    /\ \E now \in Times :
          run' = [run EXCEPT !.pc = "wait",
                             !.slot = Some(factory_get_next_slot(ctx.prev_slot, now)),
                             !.now = Some(now),
                             !.went_back = @ \/ (IsSome(run.now) /\ now < Unwrap(run.now))]
    /\ UNCHANGED <<ledgerVars, loadVars, execVars, ctx>>

\* the instant was reached: process_slot(slot); prev_slot = Some(slot)
FactoryProcessSlot ==
    /\ run.pc = "wait"
    /\ ctx' = [prev_slot |-> run.slot, processed |-> Append(ctx.processed, Unwrap(run.slot))]
    /\ run' = [run EXCEPT !.pc = "next", !.slot = None]
    /\ UNCHANGED <<ledgerVars, loadVars, execVars>>

\* the wait was interrupted: break
FactoryStop ==
    /\ run.pc = "wait"
    /\ run' = [run EXCEPT !.pc = "stopped", !.slot = None]
    /\ UNCHANGED <<ledgerVars, loadVars, execVars, ctx>>

NextFactory ==
    \/ FactoryGetNextSlot
    \/ FactoryProcessSlot
    \/ FactoryStop

SpecFactory == InitFactory /\ [][NextFactory]_vars

\* ================================================= the rewards of a block
\* massa-execution-worker/src/execution.rs, execute_slot, reward distribution

\* endorsements the header of a block carries at most in the model
MaxEndorsements == 4

\* the (endorsement creator, endorsed block creator) pairs of the model
RewardPairs ==
    { [creator_address |-> "A", endorsed_creator |-> "B"],
      [creator_address |-> "B", endorsed_creator |-> "S"] }

\* the endorsements of a header: any number of them up to MaxEndorsements
RewardEndorsements ==
    UNION { [1..n -> RewardPairs] : n \in 0..MaxEndorsements }

\* the block credits once the operations are executed: the block reward and
\* some fees
RewardCredits == {BLOCK_REWARD, BLOCK_REWARD + 1, 2 * BLOCK_REWARD}

RewardRunNew(block_credits) ==
    [ pc |-> "rewards", block_credits |-> block_credits, before |-> None, block |-> None ]

InitRewards ==
    /\ IdleLedger /\ IdleLoad /\ IdleExec
    /\ \E fs \in CtxFinalStates : ctx = active_slot(CtxSlot, Some(CtxBlock.id), fs, <<>>)
    /\ \E block_credits \in RewardCredits : run = RewardRunNew(block_credits)

\* the production statistics and the rewards of the block
RewardsPay ==
    /\ run.pc = "rewards"
    /\ \E creator \in CtxCreators : \E endorsements \in RewardEndorsements :
          /\ ctx' = BlockRewards(ctx, CtxSlot, CtxStoredBlock(creator, endorsements),
                                 run.block_credits)
          /\ run' = [run EXCEPT !.pc = "paid", !.before = Some(ctx),
                                !.block = Some(CtxStoredBlock(creator, endorsements))]
    /\ UNCHANGED <<ledgerVars, loadVars, execVars>>

NextRewards == RewardsPay

SpecRewards == InitRewards /\ [][NextRewards]_vars

\* ================================= a final slot applied from the cache
\* massa-execution-worker/src/execution.rs, execute_final_slot and
\* apply_final_execution_output, one lock at a time, next to a reader

\* slots the model executes, numbered in slot order after genesis
MaxHandoffSlot == 4

\* outputs the active history holds at most
MaxHandoffHistory == 2

\* reads of the reader
MaxHandoffReads == 2

\* the final state (the slot whose changes it holds last), the active
\* history (the slots of its outputs), and the read locks held on each
HandoffNew ==
    [ final_state |-> 0, active_history |-> <<>>, final_cursor |-> 0,
      history_readers |-> 0, final_readers |-> 0 ]

\* the position of execute_final_slot and the output it popped; the reader
\* and the locks it holds
HandoffRunNew == [pc |-> "start", exec_out |-> None, reader |-> {}, reads |-> 0]

InitHandoff ==
    /\ IdleLedger /\ IdleLoad /\ IdleExec
    /\ ctx = HandoffNew
    /\ run = HandoffRunNew

\* the slot after the last slot executed
HandoffNextSlot(h) ==
    IF h.active_history /= <<>> THEN h.active_history[Len(h.active_history)] + 1
    ELSE h.final_cursor + 1

\* execute_candidate_slot: self.active_history.write().0.push_back(exec_out)
HandoffCandidate ==
    /\ run.pc = "start"
    /\ ctx.history_readers = 0
    /\ Len(ctx.active_history) < MaxHandoffHistory
    /\ HandoffNextSlot(ctx) <= MaxHandoffSlot
    /\ ctx' = [ctx EXCEPT !.active_history = Append(@, HandoffNextSlot(ctx))]
    /\ UNCHANGED <<ledgerVars, loadVars, execVars, run>>

\* let first_exec_output = self.active_history.write().0.pop_front(): the
\* write lock is released at the end of the statement
HandoffPopFront ==
    /\ run.pc = "start"
    /\ ctx.history_readers = 0
    /\ ctx.active_history /= <<>>
    /\ ctx' = [ctx EXCEPT !.active_history = Tail(@)]
    /\ run' = [run EXCEPT !.pc = "popped", !.exec_out = Some(ctx.active_history[1])]
    /\ UNCHANGED <<ledgerVars, loadVars, execVars>>

\* apply_final_execution_output(exec_out):
\* self.final_state.write().finalize(exec_out.slot, exec_out.state_changes)
\* and self.final_cursor = exec_out.slot
HandoffFinalize ==
    /\ run.pc = "popped"
    /\ ctx.final_readers = 0
    /\ ctx' = [ctx EXCEPT !.final_state = Unwrap(run.exec_out),
                          !.final_cursor = Unwrap(run.exec_out)]
    /\ run' = [run EXCEPT !.pc = "start", !.exec_out = None]
    /\ UNCHANGED <<ledgerVars, loadVars, execVars>>

\* a reader takes the read lock of the active history: no writer holds it,
\* the writers of the model write in one step
ReaderLockHistory ==
    /\ run.reads < MaxHandoffReads
    /\ "active_history" \notin run.reader
    /\ ctx' = [ctx EXCEPT !.history_readers = @ + 1]
    /\ run' = [run EXCEPT !.reader = @ \cup {"active_history"}]
    /\ UNCHANGED <<ledgerVars, loadVars, execVars>>

\* a reader takes the read lock of the final state
ReaderLockFinal ==
    /\ run.reads < MaxHandoffReads
    /\ "final_state" \notin run.reader
    /\ ctx' = [ctx EXCEPT !.final_readers = @ + 1]
    /\ run' = [run EXCEPT !.reader = @ \cup {"final_state"}]
    /\ UNCHANGED <<ledgerVars, loadVars, execVars>>

\* the reader drops its guards
ReaderUnlockBoth ==
    /\ run.reader /= {}
    /\ ctx' = [ctx EXCEPT !.history_readers = 0, !.final_readers = 0]
    /\ run' = [run EXCEPT !.reader = {}, !.reads = @ + 1]
    /\ UNCHANGED <<ledgerVars, loadVars, execVars>>

NextHandoff ==
    \/ HandoffCandidate
    \/ HandoffPopFront
    \/ HandoffFinalize
    \/ ReaderLockHistory
    \/ ReaderLockFinal
    \/ ReaderUnlockBoth

SpecHandoff == InitHandoff /\ [][NextHandoff]_vars
\* ================================================================ claims

\* the history of the node: the journal of the final state, then the active
\* history; each entry as (slot, state changes)
NodeHistory ==
    node.final_state.changes_history \o
    [i \in 1..Len(node.active_history) |->
        <<node.active_history[i].slot, node.active_history[i].state_changes>>]

\* the entries of the history of the node that executed operation o
ExecutedIn(o) ==
    { i \in 1..Len(NodeHistory) : IsSome(NodeHistory[i][2].executed_ops_changes[o]) }

\* C1: after any sequence of candidate slot executions (slot > final_cursor)
\* and final slot executions, final_cursor <= active_cursor and the slot of
\* the final state is final_cursor.
C1_CursorsOrdered ==
    /\ SlotLe(node.final_cursor, node.active_cursor)
    /\ node.final_state.slot = node.final_cursor

\* the final cursor has advanced and candidate slots are executed after it
C1_Witness ==
    /\ SlotLt(GenesisSlot, node.final_cursor)
    /\ SlotLt(node.final_cursor, node.active_cursor)
    /\ Len(node.active_history) > 0

\* C2: after any sequence of candidate and final slot executions the active
\* history holds exactly one output for every slot of (final_cursor,
\* active_cursor], in consecutive slot order: the i-th output is i slots after
\* final_cursor, the last one is at active_cursor, and the history is empty
\* exactly when active_cursor = final_cursor.
C2_HistoryCoversCursors ==
    /\ Len(node.active_history) = slots_since(node.active_cursor, node.final_cursor)
    /\ \A i \in 1..Len(node.active_history) :
          slots_since(node.active_history[i].slot, node.final_cursor) = i
    /\ (Len(node.active_history) > 0 =>
          node.active_history[Len(node.active_history)].slot = node.active_cursor)
    /\ (Len(node.active_history) = 0 <=> node.active_cursor = node.final_cursor)

\* the history holds two outputs after a slot was finalized
C2_Witness ==
    /\ Len(node.active_history) >= 2
    /\ SlotLt(GenesisSlot, node.final_cursor)
    /\ node.active_history[1].block_id /= node.active_history[2].block_id

\* C3: an operation is executed in at most one slot of the history made of
\* the final state and the active history, and once it is executed a block
\* of a later slot of its thread, within its validity period, that includes
\* it again has it rejected with IncludeOperationError, the context (hence
\* the balance of the sender) being left as it was.
C3_ExecutedAtMostOnce ==
    /\ \A o \in OpIds : Cardinality(ExecutedIn(o)) <= 1
    /\ \A o \in OpIds : \A slot \in Slots :
          ( /\ ExecutedIn(o) /= {}
            /\ SlotLt(node.active_cursor, slot)
            /\ get_thread(Operations[o].creator_address) = slot.thread
            /\ InValidityRange(Operations[o], slot.period) )
          => LET c == active_slot(slot, None, node.final_state, node.active_history)
                 b == ExecuteOperationBegin(c, Operations[o], slot, MAX_GAS_PER_BLOCK, BLOCK_REWARD)
             IN b.result = "IncludeOperationError" /\ b.c = c

\* an operation was executed in a slot that is now final, was pruned or not,
\* and a later slot of its thread is still within its validity period
C3_Witness ==
    \E o \in OpIds : \E slot \in Slots :
        /\ \E i \in ExecutedIn(o) : i <= Len(node.final_state.changes_history)
        /\ Len(node.active_history) > 0
        /\ SlotLt(node.active_cursor, slot)
        /\ get_thread(Operations[o].creator_address) = slot.thread
        /\ InValidityRange(Operations[o], slot.period)

\* C6: the node, whatever candidate slots and blockclique switches it
\* executed, and the reference, which only re-executed the final slots on its
\* final state, have the same final state (content, ledger hash, journal) at
\* the same final cursor.
C6_SameFinalState ==
    /\ node.final_cursor = reference.final_cursor
    /\ node.final_state = reference.final_state
    /\ node.final_events = reference.final_events

\* the node finalized a slot from its cache after having replaced a candidate
\* output, and holds further candidate outputs
C6_Witness ==
    /\ node.from_cache
    /\ Len(node.final_state.changes_history) >= 2
    /\ Len(node.active_history) >= 1
    /\ node.final_state.ledger.hash /= InitialFinalState.ledger.hash

\* C10: when execute_final_slot is called for slot s > final_cursor with a
\* block b and the front output of the active history is the one of s and b,
\* the final state becomes the final state finalized with the state changes of
\* that output, the active history loses its front output only, and
\* active_cursor, when at or after s, is unchanged.
C10_CacheHitFrame ==
    [][ \A slot \in Slots : \A exec_target \in Targets(slot) :
          ( /\ SlotLt(node.final_cursor, slot)
            /\ Len(node.active_history) > 0
            /\ node.active_history[1].slot = slot
            /\ node.active_history[1].block_id = TargetId(exec_target)
            /\ FinalStep(slot, exec_target) )
          => /\ node'.final_state = finalize(node.final_state, slot,
                                             node.active_history[1].state_changes)
             /\ node'.final_cursor = slot
             /\ node'.active_history = Tail(node.active_history)
             /\ (SlotLe(slot, node.active_cursor) => node'.active_cursor = node.active_cursor)
             /\ node'.final_events =
                   PruneEvents(node.final_events \o FinalizeEvents(node.active_history[1].events))
       ]_vars

\* a slot was finalized from the cache and two candidate outputs remain
C10_Witness ==
    /\ node.from_cache
    /\ Len(node.active_history) >= 2
    /\ node.active_cursor = node.active_history[Len(node.active_history)].slot

\* the balance of addr as the context reads it, 0 for a missing address
BalanceOrZero(c, addr) == IF IsSome(get_balance(c, addr)) THEN Unwrap(get_balance(c, addr)) ELSE 0

\* the messages the settlement of the slot deleted from the pool
SettledMessages == pool_settle_slot(Unwrap(run.before), CtxSlot).deleted

\* C4: the coins of a message taken for execution are credited to its
\* destination when its handler is run, and to its sender, and to nobody
\* else, when the message fails (missing bytecode, failed credit, error of the
\* handler); the coins of the messages deleted at the settlement of the slot
\* are credited to their senders.
C4_CoinsCreditedOnce ==
    /\ run.last = "MessageCredited" =>
          /\ get_balance(ctx, Unwrap(run.message).destination) =
                Some(BalanceOrZero(Unwrap(run.before), Unwrap(run.message).destination)
                     + Unwrap(run.message).coins)
          /\ get_balance(ctx, Unwrap(run.message).sender) =
                get_balance(Unwrap(run.before), Unwrap(run.message).sender)
    /\ run.last = "MessageFailed" =>
          /\ get_balance(ctx, Unwrap(run.message).sender) =
                Some(BalanceOrZero(Unwrap(run.before), Unwrap(run.message).sender)
                     + Unwrap(run.message).coins)
          /\ get_balance(ctx, Unwrap(run.message).destination) =
                get_balance(Unwrap(run.before), Unwrap(run.message).destination)
    /\ run.last = "Settled" =>
          \A a \in LAddrs :
              SumCoins(SettledMessages, a, 1) > 0 =>
                 OutBalance(Unwrap(run.out), ctx.final_state, a) =
                    Some(BalanceOrZero(Unwrap(run.before), a) + SumCoins(SettledMessages, a, 1))

\* C5: after an accepted operation whose body failed, the reads of the
\* context are those of before the operation but for the fee debited from
\* the sender, the operation that is now executed, and one error event
\* appended to the events of before; the emitted messages, the roll changes,
\* the three creation counters (the event counter being one more), the call
\* stack and the random generator are those of before the operation.
C5_FailedBodyReverted ==
    run.last = "OperationFailed" =>
        /\ \A a \in LAddrs :
              /\ get_balance(ctx, a) =
                    (IF a = Unwrap(run.operation).creator_address
                     THEN Some(BalanceOrZero(Unwrap(run.before), a)
                               - get_total_fee(Unwrap(run.operation)))
                     ELSE get_balance(Unwrap(run.before), a))
              /\ get_bytecode(ctx, a) = get_bytecode(Unwrap(run.before), a)
              /\ \A k \in DataKeys :
                    get_data_entry(ctx, a, k) = get_data_entry(Unwrap(run.before), a, k)
              /\ get_rolls(ctx, a) = get_rolls(Unwrap(run.before), a)
        /\ \A o \in OpIds :
              is_op_executed(ctx, o) <=>
                 (o = Unwrap(run.operation).id \/ is_op_executed(Unwrap(run.before), o))
        /\ Len(ctx.events) = Len(Unwrap(run.before).events) + 1
        /\ SubSeq(ctx.events, 1, Len(ctx.events) - 1) = Unwrap(run.before).events
        /\ ctx.events[Len(ctx.events)].data[1] = "massa_execution_error"
        /\ ctx.created_event_index = Unwrap(run.before).created_event_index + 1
        /\ ctx.async_emitted = Unwrap(run.before).async_emitted
        /\ ctx.created_addr_index = Unwrap(run.before).created_addr_index
        /\ ctx.created_message_index = Unwrap(run.before).created_message_index
        /\ ctx.stack = Unwrap(run.before).stack
        /\ ctx.unsafe_rng = Unwrap(run.before).unsafe_rng

\* the context reset to the snapshot of the running message or operation
ResetNow == reset_to_snapshot(ctx, Unwrap(run.snapshot), None)

\* C9: whatever the bytecode did since get_snapshot, reset_to_snapshot(snapshot,
\* None) gives a context whose staged ledger, pool, roll and executed-operation
\* changes, created_addr_index, created_event_index, created_message_index,
\* call stack, events and random generator are those of snapshot time, so that
\* every read returns what it returned then.
C9_ResetRestoresSnapshot ==
    IsSome(run.snapshot) =>
        /\ ResetNow.ledger_changes = Unwrap(run.at_snapshot).ledger_changes
        /\ ResetNow.async_emitted = Unwrap(run.at_snapshot).async_emitted
        /\ ResetNow.pos_changes = Unwrap(run.at_snapshot).pos_changes
        /\ ResetNow.executed_ops = Unwrap(run.at_snapshot).executed_ops
        /\ ResetNow.created_addr_index = Unwrap(run.at_snapshot).created_addr_index
        /\ ResetNow.created_event_index = Unwrap(run.at_snapshot).created_event_index
        /\ ResetNow.created_message_index = Unwrap(run.at_snapshot).created_message_index
        /\ ResetNow.stack = Unwrap(run.at_snapshot).stack
        /\ ResetNow.events = Unwrap(run.at_snapshot).events
        /\ ResetNow.unsafe_rng = Unwrap(run.at_snapshot).unsafe_rng
        /\ \A a \in LAddrs : get_balance(ResetNow, a) = get_balance(Unwrap(run.at_snapshot), a)


\* the slots of the journal of the final state are strictly increasing and
\* end at the slot of the final state
JournalIncreasing(fs) ==
    /\ \A i \in 1..(Len(fs.changes_history) - 1) :
          SlotLt(fs.changes_history[i][1], fs.changes_history[i + 1][1])
    /\ (Len(fs.changes_history) > 0 =>
          fs.changes_history[Len(fs.changes_history)][1] = fs.slot)

\* C11: when execute_final_slot is called for a slot s > final_cursor and the
\* active history is empty or its front output is not the one of s and the
\* block, the final state becomes the final state finalized with the changes
\* of s executed on the final state alone, the active history is empty and
\* active_cursor = final_cursor = s.
C11_CacheMissClears ==
    [][ \A slot \in Slots : \A exec_target \in Targets(slot) :
          ( /\ SlotLt(node.final_cursor, slot)
            /\ ~( /\ Len(node.active_history) > 0
                  /\ node.active_history[1].slot = slot
                  /\ node.active_history[1].block_id = TargetId(exec_target) )
            /\ FinalStep(slot, exec_target) )
          => /\ node'.active_history = <<>>
             /\ node'.active_cursor = slot
             /\ node'.final_cursor = slot
             /\ node'.final_state =
                   finalize(node.final_state, slot,
                            execute_slot(node.final_state, <<>>, slot, exec_target).state_changes)
       ]_vars

\* a final slot missed the cache and candidate outputs were discarded
C11_Witness ==
    /\ ~node.from_cache
    /\ node.dropped
    /\ node.active_history = <<>>
    /\ node.active_cursor = node.final_cursor
    /\ SlotLt(GenesisSlot, node.final_cursor)

\* the outputs of the history whose slot is before slot, in order
Before(ah, slot) == SelectSeq(ah, LAMBDA o : SlotLt(o.slot, slot))

\* C12: when execute_candidate_slot is called for a slot s with
\* final_cursor < s <= active_cursor, the active history becomes the outputs
\* it held before s, unchanged and in order, followed by the output of s
\* executed on top of them, and active_cursor = s.
C12_TruncateKeepsPrefix ==
    [][ \A slot \in Slots : \A exec_target \in Targets(slot) :
          ( /\ SlotLt(node.final_cursor, slot)
            /\ SlotLe(slot, node.active_cursor)
            /\ CandidateStep(slot, exec_target) )
          => /\ node'.active_history =
                   Append(Before(node.active_history, slot),
                          execute_slot(node.final_state, Before(node.active_history, slot),
                                       slot, exec_target))
             /\ node'.active_history[Len(node'.active_history)].slot = slot
             /\ node'.active_cursor = slot
       ]_vars

\* a candidate slot was executed again, outputs were dropped and an older
\* output was kept
C12_Witness ==
    /\ node.dropped
    /\ Len(node.active_history) >= 2
    /\ node.active_cursor = node.active_history[Len(node.active_history)].slot

C14_FinalizeMonotonic ==
    [][ /\ JournalIncreasing(node'.final_state)
        /\ node'.final_state.slot = node'.final_cursor
        /\ SlotLe(node.final_state.slot, node'.final_state.slot)
        /\ (node'.final_state /= node.final_state =>
               SlotLt(node.final_state.slot, node'.final_state.slot))
        /\ (node.panicked => node' = node)
        /\ \A slot \in Slots : \A exec_target \in Targets(slot) :
             ( /\ SlotLe(slot, node.final_state.slot)
               /\ ApplyStep(slot, exec_target) )
             => /\ node'.panicked
                /\ node'.final_state = node.final_state
                /\ node'.final_cursor = node.final_cursor
      ]_vars

\* an output at or before the slot of the final state was applied, after two
\* slots were finalized
C14_Witness ==
    /\ node.panicked
    /\ Len(node.final_state.changes_history) >= 2
    /\ JournalIncreasing(node.final_state)

\* the ledger, once the ledger changes of the outputs i.. of the history are
\* applied to it in order
RECURSIVE ReplayLedger(_, _, _)
ReplayLedger(ldb, ah, i) ==
    IF i > Len(ah) THEN ldb
    ELSE ReplayLedger(apply_changes(ldb, ah[i].state_changes.ledger_changes, ah[i].slot),
                      ah, i + 1)

\* the final ledger with the whole active history applied, oldest output first
ReplayedLedger == ReplayLedger(node.final_state.ledger, node.active_history, 1)

\* C15: for every address and datastore key, the candidate balance, bytecode
\* and datastore value read from the active history, newest output first, and
\* then from the final state, are the ones of the final ledger to which the
\* ledger changes of the outputs are applied from the oldest to the newest.
C15_HistoryReadsAreReplay ==
    \A addr \in LAddrs :
        /\ get_final_and_candidate_balance(node, addr)[2] = ReplayedLedger.db[balance_key(addr)]
        /\ candidate_bytecode(node, addr) = ReplayedLedger.db[bytecode_key(addr)]
        /\ \A k \in DataKeys :
              get_final_and_active_data_entry(node, addr, k)[2] =
                 ReplayedLedger.db[data_key(addr, k)]

\* two outputs of the history change the same datastore entry, the newest
\* deleting it, and an older output created a contract
C15_Witness ==
    /\ Len(node.active_history) >= 2
    /\ \E i \in 1..(Len(node.active_history) - 1) :
          /\ DataEntryInfo(node.active_history[i].state_changes.ledger_changes["A"],
                           DataKeyOrder[1])[1] = "Present"
          /\ DataEntryInfo(node.active_history[i + 1].state_changes.ledger_changes["A"],
                           DataKeyOrder[1]) = Absent
    /\ \E i \in 1..Len(node.active_history) :
          /\ IsSome(node.active_history[i].state_changes.ledger_changes["S"])
          /\ Unwrap(node.active_history[i].state_changes.ledger_changes["S"]).kind = "Set"
    /\ fetch_balance(node.active_history, "B") /= NoInfo

\* C16: a read-only request runs in a context at the slot after active_cursor
\* and, whether it returns an output or an error, leaves final_cursor,
\* active_cursor, the active history and the final state as they were when it
\* was received.
C16_ReadonlyLeavesState ==
    /\ (run.pc = "body" /\ ctx.read_only =>
          /\ ctx.slot = get_next_slot(node.active_cursor)
          /\ node = Unwrap(run.before))
    /\ (run.last \in {"ReadonlyDone", "ReadonlyFailed"} =>
          /\ node.final_cursor = Unwrap(run.before).final_cursor
          /\ node.active_cursor = Unwrap(run.before).active_cursor
          /\ node.active_history = Unwrap(run.before).active_history
          /\ node.final_state = Unwrap(run.before).final_state)
    /\ (run.last = "ReadonlyDone" =>
          /\ IsSome(run.out)
          /\ Unwrap(run.out).slot = get_next_slot(node.active_cursor))

\* a read-only request returned an output that changes the ledger, on a state
\* that holds candidate outputs
C16_Witness ==
    /\ run.last = "ReadonlyDone"
    /\ IsSome(run.out)
    /\ Unwrap(run.out).state_changes.ledger_changes /= NoLedgerChanges
    /\ Len(node.active_history) >= 2

\* what C17 states of a failed message, but for the credit of the sender and
\* the counter of emitted messages
MessageRevertedBut(b, m) ==
    /\ \A a \in LAddrs :
          /\ (a /= m.sender => get_balance(ctx, a) = get_balance(b, a))
          /\ get_bytecode(ctx, a) = get_bytecode(b, a)
          /\ \A k \in DataKeys : get_data_entry(ctx, a, k) = get_data_entry(b, a, k)
          /\ get_rolls(ctx, a) = get_rolls(b, a)
    /\ \A o \in OpIds : is_op_executed(ctx, o) <=> is_op_executed(b, o)
    /\ ctx.async_emitted = b.async_emitted
    /\ ctx.created_addr_index = b.created_addr_index
    /\ Len(ctx.events) = Len(b.events) + 1
    /\ SubSeq(ctx.events, 1, Len(ctx.events) - 1) = b.events
    /\ ctx.events[Len(ctx.events)].data[1] = "massa_execution_error"
    /\ run.pc = "messages"

\* C17: after a message failed (no target bytecode, failed credit of the
\* destination, error of the handler) the reads of the context are those of
\* before the message, the changes staged since the snapshot being reverted,
\* but for the coins of the message credited to its sender and one error
\* event; the slot goes on with the messages and the operations left.
C17_FailedMessageReverted ==
    run.last = "MessageFailed" =>
        /\ MessageRevertedBut(Unwrap(run.before), Unwrap(run.message))
        /\ get_balance(ctx, Unwrap(run.message).sender) =
              Some(BalanceOrZero(Unwrap(run.before), Unwrap(run.message).sender)
                   + Unwrap(run.message).coins)
        /\ ctx.created_message_index = Unwrap(run.before).created_message_index

Credited(addr) == BalanceOrZero(ctx, addr) - BalanceOrZero(Unwrap(run.before), addr)

\* the credits of a share the endorsements of the block name addr for
RECURSIVE ShareCount(_, _, _)
ShareCount(endorsements, addr, i) ==
    IF i > Len(endorsements) THEN 0
    ELSE (IF endorsements[i].creator_address = addr THEN 1 ELSE 0)
         + (IF endorsements[i].endorsed_creator = addr THEN 1 ELSE 0)
         + ShareCount(endorsements, addr, i + 1)

\* the fees of the operations of ops the context holds as executed
RECURSIVE AcceptedFees(_)
AcceptedFees(ops) ==
    IF ops = {} THEN 0
    ELSE (IF is_op_executed(ctx, CHOOSE o \in ops : TRUE)
          THEN get_total_fee(Operations[CHOOSE o \in ops : TRUE]) ELSE 0)
         + AcceptedFees(ops \ {CHOOSE o \in ops : TRUE})

\* block_credits / (3 * (1 + endorsement_count))
BlockCreditPart == run.block_credits \div (3 * (1 + ENDORSEMENT_COUNT))

\* the block credits are the block reward and the fees of the accepted operations
CreditsAreRewardAndFees ==
    run.last = "Rewards" => run.block_credits = BLOCK_REWARD + AcceptedFees(OpIds)

\* the creators the endorsements name are credited shares, all of them when
\* their balance has the room
SharesCredited ==
    run.last = "Rewards" =>
        \A a \in LAddrs \ {Unwrap(run.block).creator_address} :
            /\ \E j \in 0..ShareCount(Unwrap(run.block).endorsements, a, 1) :
                  Credited(a) = j * BlockCreditPart
            /\ (BalanceOrZero(Unwrap(run.before), a)
                  + ShareCount(Unwrap(run.block).endorsements, a, 1) * BlockCreditPart
                  <= MaxAmount) =>
                  Credited(a) = ShareCount(Unwrap(run.block).endorsements, a, 1) * BlockCreditPart

\* the coins credited to the addresses of addrs
RECURSIVE TotalCredited(_)
TotalCredited(addrs) ==
    IF addrs = {} THEN 0
    ELSE Credited(CHOOSE a \in addrs : TRUE) + TotalCredited(addrs \ {CHOOSE a \in addrs : TRUE})

\* C19: once the rewards of a block are paid, the block credits are the block
\* reward plus the fees of the accepted operations, every creator an
\* endorsement names is credited block_credits / (3 * (1 + endorsement_count))
\* for each credit that succeeded, a failed credit stopping nothing, and the
\* block creator is credited the rest: the coins credited add up to the
\* block credits.
C19_RewardsAddUp ==
    /\ CreditsAreRewardAndFees
    /\ SharesCredited
    /\ run.last = "Rewards" => TotalCredited(LAddrs) = run.block_credits

\* every write to addr and every spending from addr fails on c and returns c
WritesDenied(c, addr) ==
    /\ \A k \in DataKeys :
          /\ \A data \in Vals :
                /\ set_data_entry(c, addr, k, data) = Err(c)
                /\ append_data_entry(c, addr, k, data) = Err(c)
          /\ delete_data_entry(c, addr, k) = Err(c)
    /\ \A bytecode \in {EmptyBytecode, 1} : set_bytecode(c, addr, bytecode) = Err(c)
    /\ \A to_addr \in {None} \cup { Some(a) : a \in LAddrs } :
          \A amount \in {0, 1, MaxAmount} :
              transfer_coins(c, Some(addr), to_addr, amount, TRUE) = Err(c)

\* C20: on every context the slot execution goes through, the call stack
\* empty or not, set_data_entry, append_data_entry, delete_data_entry and
\* set_bytecode on an address, and transfer_coins with check_rights spending
\* from it, fail and return the context as it was when the address is not
\* among the owned_addresses of the top frame of the call stack; a write call
\* of the running bytecode that is denied leaves the context as it was before.
C20_WriteRights ==
    /\ \A addr \in LAddrs \ OwnedAddresses(ctx) : WritesDenied(ctx, addr)
    /\ run.last = "AbiDenied" => ctx = Unwrap(run.abi_before)

\* a write call of the bytecode was denied under a call stack of two frames
\* whose lower frame owns an address the top frame does not, on a context
\* that has staged a datastore entry of an owned address
C20_Witness ==
    /\ run.last = "AbiDenied"
    /\ Len(ctx.stack) = 2
    /\ \E addr \in LAddrs \ OwnedAddresses(ctx) : ctx.stack[1].owned_addresses = <<addr>>
    /\ \E addr \in OwnedAddresses(ctx) :
          /\ IsSome(get_data_entry(ctx, addr, DataKeyOrder[1]))
          /\ ctx.ledger_changes[addr] /= None

\* set_bytecode fails on c, and returns c, for every address the top frame
\* owns that is the creator_address of c
CreatorBytecodeRefused(c) ==
    \A addr \in OwnedAddresses(c) :
        c.creator_address = Some(addr) =>
            \A bytecode \in {EmptyBytecode, 1} : set_bytecode(c, addr, bytecode) = Err(c)

\* C21: set_bytecode on the creator_address of the context fails although the
\* top frame of the call stack owns that address and leaves the context, the
\* bytecode of the address with it, as it was; the operation whose bytecode
\* made the call ends failed, with the bytecode of the address as before the
\* operation and an error event as the last event.
C21_CreatorBytecodeRefused ==
    /\ CreatorBytecodeRefused(ctx)
    /\ (run.abi_error = "CreatorBytecode" /\ run.last = "Abi") =>
          ctx = Unwrap(run.abi_before)
    /\ (run.abi_error = "CreatorBytecode" /\ run.pc = "messages") =>
          /\ run.last = "OperationFailed"
          /\ get_bytecode(ctx, Unwrap(run.operation).creator_address) =
                get_bytecode(Unwrap(run.before), Unwrap(run.operation).creator_address)
          /\ Len(ctx.events) = Len(Unwrap(run.before).events) + 1
          /\ ctx.events[Len(ctx.events)].data[1] = "massa_execution_error"

\* the bytecode of an ExecuteSC operation staged a datastore entry of its
\* creator, was refused the bytecode of that address, and the operation failed
C21_Witness ==
    /\ run.abi_error = "CreatorBytecode"
    /\ run.last = "OperationFailed"
    /\ run.abi_calls = 2
    /\ Unwrap(run.operation).op.type = "ExecuteSC"
    /\ entry_exists(ctx, Unwrap(run.operation).creator_address)

\* the elements of the sequence s
Elements(s) == { s[i] : i \in 1..Len(s) }

\* C22: within the execution of one slot, the address a successful
\* create_new_sc_address returns differs from every address created earlier
\* in the slot whose creation was not rolled back, so the created addresses
\* the context holds are pairwise distinct; and no address created by a
\* read-only execution is an address created by the active execution of the
\* same slot (the hash being collision-free).
C22_CreatedAddressesDistinct ==
    /\ run.last = "Created" => Unwrap(run.address) \notin Elements(run.earlier)
    /\ \A i, j \in 1..Len(ctx.created) : ctx.created[i] = ctx.created[j] => i = j
    /\ IsSome(run.readonly) =>
          (Unwrap(run.readonly).slot = ctx.slot =>
              Elements(Unwrap(run.readonly).created) \cap Elements(ctx.created) = {})

\* an address was created after an earlier creation was rolled back and
\* another was kept, while a read-only execution of the same slot has created
\* addresses too
C22_Witness ==
    /\ run.last = "Created"
    /\ Len(run.earlier) >= 1
    /\ Unwrap(run.snapshot).created_addr_index >= 1
    /\ IsSome(run.readonly)
    /\ Unwrap(run.readonly).slot = ctx.slot
    /\ Len(Unwrap(run.readonly).created) >= 2

\* C23: at every point of the execution of a slot, the events of the context
\* are numbered in the order of the store (the first event has index_in_slot
\* 0) and created_event_index is the number of stored events, also after the
\* operations and messages that failed and were reset with an error event.
C23_EventIndexes ==
    run.pc /= "done" =>
        /\ ctx.created_event_index = Len(ctx.events)
        /\ \A i \in 1..Len(ctx.events) : ctx.events[i].index_in_slot = i - 1

\* an operation failed after its bytecode emitted an event, one event being
\* already stored before it: the store holds that event and the error event
C23_Witness ==
    /\ run.last = "OperationFailed"
    /\ run.abi_calls >= 1
    /\ Len(Unwrap(run.before).events) >= 1
    /\ Len(ctx.events) = Len(Unwrap(run.before).events) + 1

\* max_gas * gas_price, as the integers multiply
Product(m) == m.max_gas * m.gas_price

\* a comes before b by the product, then the emission slot, then the emission index
ProductOrder(a, b) ==
    \/ Product(a) > Product(b)
    \/ /\ Product(a) = Product(b)
       /\ \/ SlotLt(a.emission_slot, b.emission_slot)
          \/ a.emission_slot = b.emission_slot /\ a.emission_index < b.emission_index

\* the fee of the identifier: max_gas * gas_price, at most the maximum amount
SaturatedFee(m) == IF Product(m) > MaxAmount THEN MaxAmount ELSE Product(m)

FeeOrder(a, b) ==
    \/ SaturatedFee(a) > SaturatedFee(b)
    \/ /\ SaturatedFee(a) = SaturatedFee(b)
       /\ \/ SlotLt(a.emission_slot, b.emission_slot)
          \/ a.emission_slot = b.emission_slot /\ a.emission_index < b.emission_index

C25_SerializedOrderIsIdOrder ==
    run.pc = "id_bytes" =>
        (BytesLt(run.id_bytes[1], run.id_bytes[2]) <=> IdLt(run.ids[1], run.ids[2]))

\* the serialized form of id is the fee as it is, the slot and the index, and
\* back is what it deserializes to: id and no byte left when the thread of the
\* slot is below thread_count, an error otherwise
IdSerializedPlainly(id, bytes, back) ==
    /\ bytes = VarInt(IdAmount(id)) \o VarInt(id[2]) \o <<id[3]>> \o VarInt(id[4])
    /\ IF id[3] < THREAD_COUNT THEN back = Parsed(id, <<>>) ELSE ~back.ok

\* C25, amended: the serialized form of an identifier holds the fee as a plain
\* varint, not complemented, followed by the emission slot and the emission
\* index, and deserializes to the identifier; the byte order of the serialized
\* forms is not the order of the identifiers: of two fees below 128 the higher,
\* whose identifier is the smaller, has the greater serialized form.
C25_SerializedIdPlain ==
    run.pc = "id_back" =>
        /\ \A k \in 1..2 : IdSerializedPlainly(run.ids[k], run.id_bytes[k], run.id_back[k])
        /\ (IdAmount(run.ids[2]) < IdAmount(run.ids[1]) /\ IdAmount(run.ids[1]) < 128) =>
              /\ IdLt(run.ids[1], run.ids[2])
              /\ BytesLt(run.id_bytes[2], run.id_bytes[1])

\* two identifiers of different fees, a multi-byte period and index among
\* them, were serialized and deserialized
C25_Witness ==
    /\ run.pc = "id_back"
    /\ IdAmount(run.ids[2]) < IdAmount(run.ids[1])
    /\ run.ids[2][4] >= 128
    /\ run.id_back[1].ok /\ run.id_back[2].ok
    /\ BytesLt(run.id_bytes[2], run.id_bytes[1])

\* the conditions under which a message can be serialized and deserialized
Serializable(m) ==
    /\ Len(m.handler) <= 255
    /\ \A s \in {m.emission_slot, m.validity_start, m.validity_end} : s.thread < THREAD_COUNT
    /\ Len(m.data) <= MAX_ASYNC_MESSAGE_DATA

\* C26: for a message whose handler is at most 255 bytes, whose slots have a
\* thread below thread_count and whose data is at most the configured length,
\* the serialization succeeds, its deserialization consumes all the bytes and
\* returns an equal message, and the serialization of that message gives the
\* same bytes.
C26_MessageRoundTrip ==
    Serializable(ctx.a) =>
        /\ IsSome(run.bytes) => Unwrap(run.bytes).ok
        /\ IsSome(run.back) => Unwrap(run.back) = Parsed(ctx.a, <<>>)
        /\ IsSome(run.again) => Unwrap(run.again) = Unwrap(run.bytes)
        /\ run.pc = "back" => ENABLED MsgReserialize

\* a message with a handler of 255 bytes went through the three steps
C26_Witness ==
    /\ run.pc = "again"
    /\ Len(ctx.a.handler) = 255
    /\ Unwrap(run.again).ok
    /\ Len(Unwrap(run.again).bytes) > 255

\* the serialization of a sequence of records
RECURSIVE SerializeRecords(_)
SerializeRecords(records) ==
    IF records = <<>> THEN <<>>
    ELSE SerializeRecord(Head(records)[1], Head(records)[2]) \o SerializeRecords(Tail(records))

PartEndsAfterSize(r, size) ==
    /\ r.ledger_part = SerializeRecords(r.records)
    /\ r.records /= <<>> =>
          Len(SerializeRecords(SubSeq(r.records, 1, Len(r.records) - 1))) < size
    /\ (r.cursor.step = "Ongoing" /\ Len(r.ledger_part) < size) =>
          get_ledger_part(ctx.db, size, r.cursor).records = <<>>

AllRecords(db, keys) == [i \in 1..Len(keys) |-> <<keys[i], Unwrap(db[keys[i]])>>]

\* the cursor a call that was not given Finished returns: the last key it
\* delivered, or Finished when nothing was left to deliver
CursorFollows(r) ==
    IF r.records /= <<>> THEN r.cursor = Ongoing(r.records[Len(r.records)][1])
    ELSE r.cursor = Finished

StreamDelivers(all) ==
    /\ Len(run.delivered) <= Len(all)
    /\ run.delivered = SubSeq(all, 1, Len(run.delivered))
    /\ run.cursor = Finished => run.delivered = all
    /\ (IsSome(run.last) /\ Unwrap(run.given) /= Finished) => CursorFollows(Unwrap(run.last))
    /\ run.after_finished => Unwrap(run.last) = PartResult(<<>>, Finished, <<>>)

\* C28: a stream that starts at Started and passes each returned cursor to
\* the next call delivers the records of the ledger in ascending key order,
\* each once; a call that delivers records returns Ongoing(last delivered
\* key), the call that finds nothing left returns Finished and by then every
\* record was delivered; a call with Finished returns an empty part and
\* Finished.
C28_StreamDelivers ==
    StreamDelivers(AllRecords(ctx.db, IteratorStart(ctx.db)))

\* what holds of the ledgers that hold at least one record
NonEmptyStreamDelivers ==
    IteratorStart(ctx.db) /= <<>> => StreamDelivers(AllRecords(ctx.db, IteratorStart(ctx.db)))

\* the stream of an empty ledger stays at Started
EmptyStreamStays ==
    (IteratorStart(ctx.db) = <<>> /\ IsSome(run.last)) =>
        Unwrap(run.last) = PartResult(<<>>, Started, <<>>)

\* the last n elements of a sequence, or all of it when it is shorter
LastOf(s, n) == IF Len(s) <= n THEN s ELSE SubSeq(s, Len(s) - n + 1, Len(s))

\* C29: after every settle_slot the change journal of the final ledger holds
\* at most final_history_length entries: the most recently settled
\* (slot, changes) pairs, in settlement order. A settle_slot on a full journal
\* drops its oldest entry; it is possible in every state and attaches the
\* ledger to the slot.
C29_JournalBounded ==
    /\ Len(ctx.changes_history) <= ctx.final_history_length
    /\ ctx.changes_history = LastOf(run.settled, ctx.final_history_length)
    /\ (run.settled /= <<>> /\ Len(run.before) = ctx.final_history_length /\ Len(run.before) > 0) =>
          /\ ctx.changes_history = Tail(run.before) \o <<run.settled[Len(run.settled)]>>
          /\ ctx.slot = run.settled[Len(run.settled)][1]
    /\ (ctx.slot.period < MaxSettledPeriod \/ ctx.slot.thread + 1 < THREAD_COUNT) =>
          ENABLED JournalSettle

\* a settle_slot on a full journal of several entries
C29_Witness ==
    /\ ctx.final_history_length >= 2
    /\ Len(run.before) = ctx.final_history_length
    /\ Len(run.settled) > ctx.final_history_length + 1
    /\ Len(ctx.changes_history) = ctx.final_history_length
    /\ run.before[1] /= run.before[2]

\* what a try_send on a channel that is full or disconnected does: the
\* command is dropped and a warning is logged
DroppedWithWarning(s) ==
    IF s.before.receiver /\ Len(s.before.queue) < CHANNELS_SIZE
    THEN /\ s.result = "Ok"
         /\ s.after = [s.before EXCEPT !.queue = Append(@, s.command)]
         /\ ~s.warned
    ELSE /\ s.result = IF s.before.receiver THEN "Full" ELSE "Disconnected"
         /\ s.after = s.before
         /\ s.warned

\* C30: add_operations, add_endorsements and both halves of
\* notify_final_cs_periods can take their step in every state, whatever the
\* channel holds and whether its receiver exists; a command sent on a full
\* or disconnected channel is dropped with a warning, and no channel ever
\* holds more than channels_size commands.
C30_ControllerNeverBlocks ==
    /\ (run.pc = "idle" /\ run.calls < MaxPoolCalls) =>
          /\ ENABLED add_operations
          /\ ENABLED add_endorsements
          /\ ENABLED notify_final_cs_periods_operations
    /\ run.pc = "notify" => ENABLED notify_final_cs_periods_endorsements
    /\ IsSome(run.last) => DroppedWithWarning(Unwrap(run.last))
    /\ Len(ctx.operations.queue) <= CHANNELS_SIZE
    /\ Len(ctx.endorsements.queue) <= CHANNELS_SIZE

\* notify_final_cs_periods found the channel of the operation pool full and
\* the thread of the endorsement pool stopped, and returned with two warnings
C30_Witness ==
    /\ run.pc = "idle"
    /\ IsSome(run.last)
    /\ Unwrap(run.last).command = "NotifyFinalCsPeriods"
    /\ Unwrap(run.last).result = "Disconnected"
    /\ Len(ctx.operations.queue) = CHANNELS_SIZE
    /\ ctx.operations.receiver
    /\ run.warnings >= 2

\* C31: whatever a reader has read of the final state while it holds the read
\* lock (slot, then content, then hash) belongs to one state: the state left
\* by the last finalize that completed, never the state inside a finalize.
C31_ReadsOneState ==
    run.pc \in {"locked", "slot", "content", "hash"} =>
        /\ IsSome(run.slot) => Unwrap(run.slot) = ctx.committed.slot
        /\ IsSome(run.content) => Unwrap(run.content) = ctx.committed.content
        /\ IsSome(run.hash) => Unwrap(run.hash) = ctx.committed.hash
        /\ ~ctx.lock.writer
        /\ FinalStateRead(ctx.final_state) = ctx.committed

\* a reader that read the state before a finalize reads, in its next read,
\* the state after it
C31_Witness ==
    /\ run.pc = "hash"
    /\ run.reads = 2
    /\ Unwrap(run.slot).period >= 1
    /\ Unwrap(run.hash) /= InitialFinalState.ledger.hash
    /\ Unwrap(run.content) /= InitialFinalState.ledger.db

\* the answer for a cycle, given the roll counts recorded for every cycle
LookbackRolls(cycle, result, recorded, initial_rolls) ==
    /\ ~result.panic
    /\ cycle < 3 => result.value = initial_rolls
    /\ (cycle >= 3 /\ cycle - 3 < Len(recorded)) => result.value = recorded[cycle - 3 + 1]

\* C32: get_cycle_active_rolls(cycle) returns the initial roll counts when
\* cycle < 3 and the roll counts recorded for cycle - 3 when cycle >= 3.
C32_LookbackRolls ==
    (IsSome(run.asked) /\ run.pc = "run") =>
        LookbackRolls(Unwrap(run.asked), Unwrap(run.result), run.recorded, ctx.initial_rolls)

\* what holds when the history holds the lookback cycle
LookbackRollsHeld ==
    (IsSome(run.asked) /\ run.pc = "run" /\ Unwrap(run.asked) >= 3
       /\ IsSome(get_cycle_index(ctx, Unwrap(run.asked) - 3))) =>
        LookbackRolls(Unwrap(run.asked), Unwrap(run.result), run.recorded, ctx.initial_rolls)

\* the events of the outputs of the active history, oldest output first
RECURSIVE HistoryEvents(_)
HistoryEvents(ah) ==
    IF ah = <<>> THEN <<>> ELSE Head(ah).events \o HistoryEvents(Tail(ah))

\* get_filtered_sc_output_event with the default filter: the final events,
\* then the events of the active history
get_filtered_sc_output_event(es) == es.final_events \o HistoryEvents(es.active_history)

\* the event is one of an output the execution state holds now
EventHeld(es, event) ==
    IF event.is_final THEN SlotLe(event.slot, es.final_cursor)
    ELSE \E k \in 1..Len(es.active_history) :
            /\ es.active_history[k].slot = event.slot
            /\ es.active_history[k].block_id = event.block
            /\ \E n \in 1..Len(es.active_history[k].events) : es.active_history[k].events[n] = event

EventsInSlotOrder(es, events) ==
    /\ \A i \in 1..Len(events) : EventHeld(es, events[i])
    /\ \A i \in 1..Len(events) : \A j \in (i + 1)..Len(events) :
          /\ SlotLe(events[i].slot, events[j].slot)
          /\ events[i].is_final \/ ~events[j].is_final
          /\ events[i].slot = events[j].slot =>
                /\ events[i].block = events[j].block
                /\ events[i].index_in_slot < events[j].index_in_slot

\* C33: whatever candidate slots were executed and executed again after
\* changes of the blockclique, get_filtered_sc_output_event returns the final
\* events first and then the events of the outputs the active history holds,
\* so that an event of an earlier slot comes before an event of a later slot
\* and no event of a replaced output is returned.
C33_EventsAfterSwitch ==
    ~node.panicked => EventsInSlotOrder(node, get_filtered_sc_output_event(node))

\* a candidate slot was executed again and the later outputs were dropped;
\* the history holds events of the slot before it and of its new output
C33_Witness ==
    /\ node.dropped
    /\ Len(node.active_history) >= 2
    /\ node.active_history[Len(node.active_history)].events /= <<>>
    /\ node.active_history[Len(node.active_history) - 1].events /= <<>>

\* a sale of n rolls by an address that owns them: the rolls leave at the slot
\* of the sale and n * roll_price is recorded for a later slot; a sale of
\* more rolls than owned changes nothing
RollsSold(before, after, n, ok) ==
    IF before.roll_count >= n
    THEN /\ ok
         /\ after.roll_count = before.roll_count - n
         /\ after.balance = before.balance
         /\ \E s \in SellSlots :
               /\ SlotLt(before.slot, s)
               /\ after.deferred_credits =
                     [before.deferred_credits EXCEPT ![s] = @ + n * ROLL_PRICE]
    ELSE /\ ~ok
         /\ after = before

\* the settlement of a slot credits the deferred credits recorded for it
CreditsPaid(before, after) ==
    after.balance = before.balance + before.deferred_credits[before.slot]

\* C34: a RollSell of n rolls by an address that owns at least n rolls lowers
\* its roll count by n at the slot of the operation and records a deferred
\* credit of n * roll_price for a later slot, and the balance of the address
\* increases by that amount at the settlement of that later slot; a sale of
\* more rolls than owned fails and changes neither the rolls nor the credits.
C34_RollSell ==
    /\ run.last = "Sell" => RollsSold(Unwrap(run.before), ctx, run.sold, run.ok)
    /\ run.last = "Settle" => CreditsPaid(Unwrap(run.before), ctx)

\* the sale alone
RollSellRecorded ==
    run.last = "Sell" => RollsSold(Unwrap(run.before), ctx, run.sold, run.ok)

\* the settlement when the credit does not overflow the balance
CreditsPaidUnlessOverflow ==
    (run.last = "Settle"
        /\ Unwrap(run.before).balance + Unwrap(run.before).deferred_credits[Unwrap(run.before).slot] <= MaxAmount)
      => CreditsPaid(Unwrap(run.before), ctx)

\* C35: once an entry was put for an address the ledger did not hold, updated
\* and deleted, and the batches were written, the ledger hash is the hash
\* before the put and the ledger holds no balance, bytecode or datastore
\* sub-entry for the address; the other entries are as they were.
C35_PutUpdateDelete ==
    run.pc = "done" =>
        /\ get_ledger_hash(ctx.db) = get_ledger_hash(run.before)
        /\ \A key \in EntryKeys(EntryAddr) : ctx.db.db[key] = None
        /\ ctx.db.db = run.before.db

\* the entry was put with a datastore entry and updated in the same batch, as
\* in the functional test of LedgerDB, in a ledger that holds another entry
C35_Witness ==
    /\ run.pc = "done"
    /\ run.same_batch
    /\ get_ledger_hash(ctx.db) /= LEDGER_HASH_INITIAL

\* the last call of execute_operation rejected its operation
OpRejected == run.result \notin {"None", "Accepted"}

\* C36: when execute_operation rejects an operation, the staged changes and
\* the events of the execution context, remaining_block_gas and block_credits
\* are as they were before the call.
C36_RejectionFrame ==
    OpRejected =>
        /\ ctx.ledger_changes = Unwrap(run.before).ledger_changes
        /\ ctx.async_emitted = Unwrap(run.before).async_emitted
        /\ ctx.pos_changes = Unwrap(run.before).pos_changes
        /\ ctx.executed_ops = Unwrap(run.before).executed_ops
        /\ ctx.events = Unwrap(run.before).events
        /\ ctx = Unwrap(run.before)
        /\ run.remaining_block_gas = run.gas_before
        /\ run.block_credits = run.credits_before

\* the operation was rejected for its fees, in its thread and validity range,
\* with gas left in the block
C36_Witness ==
    /\ OpRejected
    /\ run.result = "IncludeOperationError"
    /\ get_thread(Unwrap(run.operation).creator_address) = run.block_slot.thread
    /\ ~is_op_executed(ctx, Unwrap(run.operation).id)
    /\ get_gas_usage(Unwrap(run.operation)) <= run.remaining_block_gas

\* C37: whatever the system clock returns, the slots handed to process_slot by
\* the loop of the block factory are strictly increasing and none has
\* period 0.
C37_FactorySlotsIncrease ==
    /\ \A i \in 1..Len(ctx.processed) : ctx.processed[i].period >= 1
    /\ \A i \in 1..Len(ctx.processed) : \A j \in 1..Len(ctx.processed) :
          i < j => SlotLt(ctx.processed[i], ctx.processed[j])

\* the clock went backwards between two calls and the loop processed its slots
C37_Witness ==
    /\ Len(ctx.processed) = MaxProcessed
    /\ run.went_back
    /\ Unwrap(run.now) = 0

\* C38: for every ledger, the empty one included, the stream of
\* get_ledger_part that starts at Started and passes each returned cursor to
\* the next call reaches the cursor Finished after finitely many calls.
C38_StreamFinishes == <>(run.cursor = Finished)

\* what C38 states, for the ledgers that hold a record
NonEmptyStreamFinishes ==
    (\E key \in PartKeys : ctx.db[key] /= None) => <>(run.cursor = Finished)

\* the stream of the empty ledger: every call returns the cursor Started
EmptyStreamNeverFinishes ==
    (\A key \in PartKeys : ctx.db[key] = None) => [](run.cursor = Started)

\* C39: whatever the number of endorsements of the header and whichever
\* credits fail, the coins credited to the endorsement creators, to the
\* creators of the endorsed blocks and to the block creator during the reward
\* distribution never exceed block_credits.
C39_RewardsWithinCredits ==
    run.pc = "paid" => TotalCredited(LAddrs) <= run.block_credits

\* what C39 states, for the headers whose shares fit in the block credits:
\* at most 3 * (1 + endorsement_count) shares, two by endorsement
RewardsWithinCreditsWhenSharesFit ==
    (run.pc = "paid" /\ 2 * Len(Unwrap(run.block).endorsements) <= 3 * (1 + ENDORSEMENT_COUNT))
        => TotalCredited(LAddrs) <= run.block_credits

\* the changes of slot are in the final state, as a reader holding its lock
\* finds them
InFinalState(slot) == slot <= ctx.final_state

\* the changes of slot are in the active history
InActiveHistory(slot) == \E i \in 1..Len(ctx.active_history) : ctx.active_history[i] = slot

\* the reader holds the read locks of the active history and of the final state
ReaderHoldsBoth == run.reader = {"active_history", "final_state"}

ChangesVisibleBetweenCalls ==
    run.pc = "start" =>
        \A slot \in 1..MaxHandoffSlot :
            /\ slot < HandoffNextSlot(ctx) => (InFinalState(slot) \/ InActiveHistory(slot))
            /\ ~(InFinalState(slot) /\ InActiveHistory(slot))

\* in that span the changes of the popped slot are in neither
ChangesInNeither ==
    IsSome(run.exec_out) =>
        ~InFinalState(Unwrap(run.exec_out)) /\ ~InActiveHistory(Unwrap(run.exec_out))

\* C7: after any sequence of apply_changes calls the stored ledger hash is
\* the XOR of the keyed hashes of exactly the key/value pairs the ledger
\* holds, combined with the contribution of its slot.
C7_HashIsXorOfContent ==
    IsSome(ledger.hash) => Unwrap(ledger.hash) = ContentHash(ledger)

\* C8: two databases loaded from the same initial ledger, whatever the order
\* in which each inserted the entries, hold the same ledger hash: the batch
\* hashes agree whenever the same entries were inserted, and so do the
\* hashes written at the end.
C8_InsertOrderIndependent ==
    /\ Loaded(1) = Loaded(2) => load_batch[1].ledger_hash = load_batch[2].ledger_hash
    /\ (IsSome(load_db[1].hash) /\ IsSome(load_db[2].hash)) => load_db[1] = load_db[2]

\* both databases are loaded, from at least two entries inserted in different orders
C8_Witness ==
    /\ IsSome(load_db[1].hash) /\ IsSome(load_db[2].hash)
    /\ Len(load_order[1]) >= 2
    /\ load_order[1] /= load_order[2]
    /\ load_db[1].hash /= Some({SlotHash(GenesisSlot)})

=============================================================================
